---- MODULE Spec2Model ----
(***************************************************************************)
(* Model of the coverage computation engine of ri_coverage_analytics:      *)
(* utils.convert_instance_class and                                        *)
(* data_processor.calculate_coverage_metrics.                              *)
(*                                                                         *)
(* Python strings are sequences of one-character strings, so that          *)
(* str.lower, str.strip, str.split, re.match and float() are computed on   *)
(* the characters.  Floats are exact rationals (plus inf and nan where the *)
(* code can produce them); rounding is outside the model.                  *)
(***************************************************************************)
EXTENDS Integers, Sequences, FiniteSets, TLC

(***************************************************************************)
(* Bounds of the model.                                                    *)
(***************************************************************************)
\* sizes <N>xlarge are enumerated for N in 0..MaxMultiplier
MaxMultiplier == 12
\* a report table has at most MaxRows rows
MaxRows == 2
\* dates are enumerated over MaxYearSpan + 1 consecutive years
MaxYearSpan == 2
\* the calls of the cached region lookup made in one run
MaxCalls == 4

(***************************************************************************)
(* Characters and the str methods the code uses.                           *)
(***************************************************************************)
LowerLetters ==
  <<"a","b","c","d","e","f","g","h","i","j","k","l","m",
    "n","o","p","q","r","s","t","u","v","w","x","y","z">>

UpperLetters ==
  <<"A","B","C","D","E","F","G","H","I","J","K","L","M",
    "N","O","P","Q","R","S","T","U","V","W","X","Y","Z">>

Digits == <<"0","1","2","3","4","5","6","7","8","9">>

Range(f) == {f[i] : i \in DOMAIN f}

IsDigit(c) == c \in Range(Digits)

\* the character class [a-z0-9] of the pattern
IsLowerAlnum(c) == c \in Range(LowerLetters) \cup Range(Digits)

IsSpace(c) == c \in {" ", "\t", "\n"}

\* str.lower on one character
LowerChar(c) ==
  IF c \in Range(UpperLetters)
  THEN LowerLetters[CHOOSE i \in DOMAIN UpperLetters : UpperLetters[i] = c]
  ELSE c

UpperChar(c) ==
  IF c \in Range(LowerLetters)
  THEN UpperLetters[CHOOSE i \in DOMAIN LowerLetters : LowerLetters[i] = c]
  ELSE c

\* str.lower
Lower(s) == [i \in 1..Len(s) |-> LowerChar(s[i])]

\* s[i:] and s[:n] of Python, on 1-based sequences
From(s, i) == SubSeq(s, i, Len(s))

Take(s, n) == SubSeq(s, 1, n)

\* str.strip: drops the white space at both ends
Strip(s) ==
  LET nonsp == {i \in 1..Len(s) : ~IsSpace(s[i])}
      first == CHOOSE i \in nonsp : \A j \in nonsp : i <= j
      last  == CHOOSE i \in nonsp : \A j \in nonsp : j <= i
  IN  IF nonsp = {} THEN <<>> ELSE SubSeq(s, first, last)

\* pat occurs in s at position i
OccursAt(s, pat, i) ==
  /\ i + Len(pat) - 1 <= Len(s)
  /\ \A k \in 1..Len(pat) : s[i + k - 1] = pat[k]

\* the Python test: pat in s
Contains(s, pat) == \E i \in 1..(Len(s) + 1) : OccursAt(s, pat, i)

\* s.split(pat)[0]: what precedes the first occurrence of pat (all of s if none)
SplitFirst(s, pat) ==
  IF Contains(s, pat)
  THEN LET i == CHOOSE i \in 1..(Len(s) + 1) :
                  /\ OccursAt(s, pat, i)
                  /\ \A j \in 1..(i - 1) : ~OccursAt(s, pat, j)
       IN  Take(s, i - 1)
  ELSE s

\* length of the longest run of [a-z0-9] that starts at position i of s
RunLen(s, i) ==
  IF i > Len(s) THEN 0
  ELSE CHOOSE n \in 0..Len(s) :
    /\ i + n - 1 <= Len(s)
    /\ \A k \in 0..(n - 1) : IsLowerAlnum(s[i + k])
    /\ (i + n > Len(s) \/ ~IsLowerAlnum(s[i + n]))

(***************************************************************************)
(* Exact rationals, kept in lowest terms with a positive denominator.      *)
(***************************************************************************)
Abs(x) == IF x < 0 THEN -x ELSE x

RECURSIVE GCD(_, _)
GCD(a, b) == IF b = 0 THEN a ELSE GCD(b, a % b)

Rat(n, d) ==
  LET g == GCD(Abs(n), Abs(d))
      s == IF d < 0 THEN -1 ELSE 1
  IN  [n |-> s * (n \div g), d |-> s * (d \div g)]

RatOfInt(k) == [n |-> k, d |-> 1]

Zero == RatOfInt(0)

RatAdd(x, y) ==
  LET g == GCD(x.d, y.d)
  IN  Rat(x.n * (y.d \div g) + y.n * (x.d \div g), x.d * (y.d \div g))

RatMul(x, y) ==
  LET a == Rat(x.n, y.d)
      b == Rat(y.n, x.d)
  IN  [n |-> a.n * b.n, d |-> a.d * b.d]

\* x / y for y # 0
RatDiv(x, y) == RatMul(x, Rat(y.d, y.n))

RatGt0(x) == x.n > 0

(***************************************************************************)
(* Python floats: a rational, inf or nan.                                  *)
(***************************************************************************)
Num(r) == [kind |-> "num", val |-> r]

Inf == [kind |-> "inf", val |-> Zero]

NaN == [kind |-> "nan", val |-> Zero]

RECURSIVE DigitsVal(_)
DigitsVal(s) ==
  LET DigitVal(c) == (CHOOSE i \in DOMAIN Digits : Digits[i] = c) - 1
  IN  IF s = <<>> THEN 0
      ELSE 10 * DigitsVal(Take(s, Len(s) - 1)) + DigitVal(s[Len(s)])

AllDigits(s) == s # <<>> /\ \A i \in 1..Len(s) : IsDigit(s[i])

RECURSIVE Pow10(_)
Pow10(k) == IF k = 0 THEN 1 ELSE 10 * Pow10(k - 1)

\* float(s) for a string s of letters and digits (all that the pattern lets
\* through): decimal digits, digits with a decimal exponent, or one of the
\* words inf, infinity, nan; anything else is a ValueError.
ParseFloat(s) ==
  LET low  == Lower(s)
      epos == {i \in 1..Len(low) :
                 /\ low[i] = "e"
                 /\ AllDigits(Take(low, i - 1))
                 /\ AllDigits(From(low, i + 1))}
  IN  IF AllDigits(s) THEN Num(RatOfInt(DigitsVal(s)))
      ELSE IF epos # {}
      THEN LET i == CHOOSE i \in epos : TRUE
           IN  Num(RatOfInt(DigitsVal(Take(low, i - 1)) * Pow10(DigitsVal(From(low, i + 1)))))
      ELSE IF low \in {<<"i","n","f">>, <<"i","n","f","i","n","i","t","y">>} THEN Inf
      ELSE IF low = <<"n","a","n">> THEN NaN
      ELSE [kind |-> "ValueError", val |-> Zero]

\* f * 2.0
FloatTimes2(f) == IF f.kind = "num" THEN Num(RatMul(f.val, RatOfInt(2))) ELSE f

(***************************************************************************)
(* utils.convert_instance_class                                            *)
(***************************************************************************)
\* Python values handed to the function
PyNone == [type |-> "NoneType", val |-> <<>>]

\* an int, kept as its decimal digits
PyInt(digits) == [type |-> "int", val |-> digits]

PyStr(s) == [type |-> "str", val |-> s]

\* the outcome of a call: the value returned, or the exception raised
Returned(v) == [raised |-> "", value |-> v]

Raised(e) == [raised |-> e, value |-> <<>>]

\* no call made yet
NotCalled == [raised |-> "not called", value |-> <<>>]

large == <<"l","a","r","g","e">>

xlarge == <<"x","l","a","r","g","e">>

medium == <<"m","e","d","i","u","m">>

small == <<"s","m","a","l","l">>

micro == <<"m","i","c","r","o">>

db_dot == <<"d","b",".">>

\* not instance_class or not isinstance(instance_class, str)
InvalidInput(x) ==
  \/ x.type = "NoneType"
  \/ x.type = "int"
  \/ (x.type = "str" /\ x.val = <<>>)

\* re.match(r"db\.([a-z0-9]+)\.([a-z0-9]+)", s): the groups (family, size), or
\* <<>> when there is no match.  The match is anchored at the start of s only.
\* Both groups are greedy runs of a class that excludes ".", so the only
\* match has the family run maximal; the size group takes its maximal run.
RegexMatch(s) ==
  LET flen == RunLen(s, 4)
      spos == 4 + flen + 1
      slen == RunLen(s, spos)
  IN  IF /\ Len(s) >= 3
         /\ Take(s, 3) = db_dot
         /\ flen >= 1
         /\ Len(s) >= 4 + flen
         /\ s[4 + flen] = "."
         /\ slen >= 1
      THEN <<SubSeq(s, 4, 3 + flen), SubSeq(s, spos, spos + slen - 1)>>
      ELSE <<>>

\* the size factor with <N>xlarge counted as N
SizeFactor_MultiplierOnly(size_lower) ==
  IF size_lower = large THEN Num(RatOfInt(1))
  ELSE IF size_lower = xlarge THEN Num(RatOfInt(2))
  ELSE IF Contains(size_lower, xlarge)
  THEN LET multiplier_str == SplitFirst(size_lower, xlarge)
       IN  IF multiplier_str # <<>>
           THEN IF ParseFloat(multiplier_str).kind = "ValueError"
                THEN [kind |-> "InstanceClassError", val |-> Zero]
                ELSE ParseFloat(multiplier_str)
           ELSE Num(RatOfInt(2))
  ELSE IF size_lower = medium THEN Num(Rat(1, 2))
  ELSE IF size_lower = small THEN Num(Rat(1, 4))
  ELSE IF size_lower = micro THEN Num(Rat(1, 8))
  ELSE [kind |-> "InstanceClassError", val |-> Zero]

\* the size factor with 1.0 for a size it does not know
SizeFactor_DefaultOne(size_lower) ==
  IF size_lower = large THEN Num(RatOfInt(1))
  ELSE IF size_lower = xlarge THEN Num(RatOfInt(2))
  ELSE IF Contains(size_lower, xlarge)
  THEN LET multiplier_str == SplitFirst(size_lower, xlarge)
       IN  IF multiplier_str # <<>>
           THEN IF ParseFloat(multiplier_str).kind = "ValueError"
                THEN [kind |-> "InstanceClassError", val |-> Zero]
                ELSE FloatTimes2(ParseFloat(multiplier_str))
           ELSE Num(RatOfInt(2))
  ELSE IF size_lower = medium THEN Num(Rat(1, 2))
  ELSE IF size_lower = small THEN Num(Rat(1, 4))
  ELSE IF size_lower = micro THEN Num(Rat(1, 8))
  ELSE Num(RatOfInt(1))

\* the size factor of a lower-cased size token, or InstanceClassError
SizeFactor(size_lower) ==
  IF size_lower = large THEN Num(RatOfInt(1))
  ELSE IF size_lower = xlarge THEN Num(RatOfInt(2))
  ELSE IF Contains(size_lower, xlarge)
  THEN LET multiplier_str == SplitFirst(size_lower, xlarge)
       IN  IF multiplier_str # <<>>
           THEN IF ParseFloat(multiplier_str).kind = "ValueError"
                THEN [kind |-> "InstanceClassError", val |-> Zero]
                ELSE FloatTimes2(ParseFloat(multiplier_str))
           ELSE Num(RatOfInt(2))
  ELSE IF size_lower = medium THEN Num(Rat(1, 2))
  ELSE IF size_lower = small THEN Num(Rat(1, 4))
  ELSE IF size_lower = micro THEN Num(Rat(1, 8))
  ELSE [kind |-> "InstanceClassError", val |-> Zero]

convert_instance_class(x) ==
  IF InvalidInput(x) THEN Raised("InstanceClassError")
  ELSE LET match == RegexMatch(Strip(x.val))
       IN  IF match = <<>> THEN Raised("InstanceClassError")
           ELSE LET family == match[1]
                    size == match[2]
                    base_instance == db_dot \o family \o <<".">> \o large
                    factor == SizeFactor(Lower(size))
                IN  IF factor.kind = "InstanceClassError"
                    THEN Raised("InstanceClassError")
                    ELSE Returned(<<base_instance, factor>>)

(***************************************************************************)
(* utils.get_region_name_code_mapping                                      *)
(***************************************************************************)
\* the dict of the function, in its order; the two characters outside ASCII
\* of one name are written by their code points
region_mapping ==
  << <<<<"U","S"," ","E","a","s","t"," ","(","O","h","i","o",")">>,
       "us-east-2">>,
     <<<<"U","S"," ","E","a","s","t"," ","(","N","."," ","V","i","r","g","i","n","i","a",")">>,
       "us-east-1">>,
     <<<<"U","S"," ","W","e","s","t"," ","(","N","."," ","C","a","l","i","f","o","r","n","i","a",")">>,
       "us-west-1">>,
     <<<<"U","S"," ","W","e","s","t"," ","(","O","r","e","g","o","n",")">>,
       "us-west-2">>,
     <<<<"A","f","r","i","c","a"," ","(","C","a","p","e"," ","T","o","w","n",")">>,
       "af-south-1">>,
     <<<<"A","s","i","a"," ","P","a","c","i","f","i","c"," ","(","H","o","n","g"," ","K","o","n","g",")">>,
       "ap-east-1">>,
     <<<<"A","s","i","a"," ","P","a","c","i","f","i","c"," ","(","H","y","d","e","r","a","b","a","d",")">>,
       "ap-south-2">>,
     <<<<"A","s","i","a"," ","P","a","c","i","f","i","c"," ","(","J","a","k","a","r","t","a",")">>,
       "ap-southeast-3">>,
     <<<<"A","s","i","a"," ","P","a","c","i","f","i","c"," ","(","M","a","l","a","y","s","i","a",")">>,
       "ap-southeast-5">>,
     <<<<"A","s","i","a"," ","P","a","c","i","f","i","c"," ","(","M","e","l","b","o","u","r","n","e",")">>,
       "ap-southeast-4">>,
     <<<<"A","s","i","a"," ","P","a","c","i","f","i","c"," ","(","M","u","m","b","a","i",")">>,
       "ap-south-1">>,
     <<<<"A","s","i","a"," ","P","a","c","i","f","i","c"," ","(","O","s","a","k","a",")">>,
       "ap-northeast-3">>,
     <<<<"A","s","i","a"," ","P","a","c","i","f","i","c"," ","(","S","e","o","u","l",")">>,
       "ap-northeast-2">>,
     <<<<"A","s","i","a"," ","P","a","c","i","f","i","c"," ","(","S","i","n","g","a","p","o","r","e",")">>,
       "ap-southeast-1">>,
     <<<<"A","s","i","a"," ","P","a","c","i","f","i","c"," ","(","S","y","d","n","e","y",")">>,
       "ap-southeast-2">>,
     <<<<"A","s","i","a"," ","P","a","c","i","f","i","c"," ","(","T","h","a","i","l","a","n","d",")">>,
       "ap-southeast-7">>,
     <<<<"A","s","i","a"," ","P","a","c","i","f","i","c"," ","(","T","o","k","y","o",")">>,
       "ap-northeast-1">>,
     <<<<"C","a","n","a","d","a"," ","(","C","e","n","t","r","a","l",")">>,
       "ca-central-1">>,
     <<<<"C","a","n","a","d","a"," ","W","e","s","t"," ","(","C","a","l","g","a","r","y",")">>,
       "ca-west-1">>,
     <<<<"E","u","r","o","p","e"," ","(","F","r","a","n","k","f","u","r","t",")">>,
       "eu-central-1">>,
     <<<<"E","u","r","o","p","e"," ","(","I","r","e","l","a","n","d",")">>,
       "eu-west-1">>,
     <<<<"E","U"," ","(","I","r","e","l","a","n","d",")">>,
       "eu-west-1">>,
     <<<<"E","u","r","o","p","e"," ","(","L","o","n","d","o","n",")">>,
       "eu-west-2">>,
     <<<<"E","u","r","o","p","e"," ","(","M","i","l","a","n",")">>,
       "eu-south-1">>,
     <<<<"E","u","r","o","p","e"," ","(","P","a","r","i","s",")">>,
       "eu-west-3">>,
     <<<<"E","u","r","o","p","e"," ","(","S","p","a","i","n",")">>,
       "eu-south-2">>,
     <<<<"E","u","r","o","p","e"," ","(","S","t","o","c","k","h","o","l","m",")">>,
       "eu-north-1">>,
     <<<<"E","u","r","o","p","e"," ","(","Z","u","r","i","c","h",")">>,
       "eu-central-2">>,
     <<<<"I","s","r","a","e","l"," ","(","T","e","l"," ","A","v","i","v",")">>,
       "il-central-1">>,
     <<<<"M","e","x","i","c","o"," ","(","C","e","n","t","r","a","l",")">>,
       "mx-central-1">>,
     <<<<"M","i","d","d","l","e"," ","E","a","s","t"," ","(","B","a","h","r","a","i","n",")">>,
       "me-south-1">>,
     <<<<"M","i","d","d","l","e"," ","E","a","s","t"," ","(","U","A","E",")">>,
       "me-central-1">>,
     <<<<"S","o","u","t","h"," ","A","m","e","r","i","c","a"," ","(","S","U+00C3","U+00A3","o"," ","P","a","u","l","o",")">>,
       "sa-east-1">>,
     <<<<"A","W","S"," ","G","o","v","C","l","o","u","d"," ","(","U","S","-","E","a","s","t",")">>,
       "us-gov-east-1">>,
     <<<<"A","W","S"," ","G","o","v","C","l","o","u","d"," ","(","U","S","-","W","e","s","t",")">>,
       "us-gov-west-1">> >>

EU_ == <<"E","U"," ">>

Europe_ == <<"E","u","r","o","p","e"," ">>

\* str.lower, also on the one cased character outside ASCII of the table
LowerName(s) ==
  [i \in 1..Len(s) |-> IF s[i] = "U+00C3" THEN "U+00E3" ELSE LowerChar(s[i])]

\* str.upper on the characters of the names
UpperName(s) ==
  [i \in 1..Len(s) |-> IF s[i] = "U+00E3" THEN "U+00C3" ELSE UpperChar(s[i])]

\* a name left as it was given
RewriteEU_Never(region_name) == region_name

\* region_name.startswith('EU ') -> 'Europe ' + region_name[3:]
RewriteEU(region_name) ==
  IF Len(region_name) >= 3 /\ Take(region_name, 3) = EU_
  THEN Europe_ \o From(region_name, 4)
  ELSE region_name

\* a default code in place of the error
RegionNotFound_Default == Returned("us-east-1")

\* raise RegionMappingError(...)
RegionNotFound == Raised("RegionMappingError")

get_region_name_code_mapping(region_name) ==
  LET name  == RewriteEU(region_name)
      exact == {i \in DOMAIN region_mapping : region_mapping[i][1] = name}
      low   == LowerName(name)
      fold  == {i \in DOMAIN region_mapping : LowerName(region_mapping[i][1]) = low}
  IN  IF exact # {}
      THEN Returned(region_mapping[CHOOSE i \in exact : TRUE][2])
      ELSE IF fold # {}
      THEN Returned(region_mapping[CHOOSE i \in fold : \A j \in fold : i <= j][2])
      ELSE RegionNotFound

(***************************************************************************)
(* utils.get_region_name_code_mapping behind functools.lru_cache           *)
(***************************************************************************)
maxsize == 128

\* the key folded to lower case
CacheKey_Folded(region_name) == LowerName(region_name)

\* the key of a call in the cache: the argument as it is given
CacheKey(region_name) == region_name

\* One call through the cache: its outcome and the cache it leaves.  A hit
\* returns the stored code and makes the entry the most recent; a miss calls
\* the function, stores the code it returns as the most recent entry, the
\* least recent one dropped from a full cache, and stores nothing when it
\* raises.
cached_lookup(entries, region_name) ==
  LET key  == CacheKey(region_name)
      hits == {i \in DOMAIN entries : entries[i][1] = key}
      hit  == CHOOSE i \in hits : TRUE
      call == get_region_name_code_mapping(region_name)
      room == IF Len(entries) >= maxsize THEN Tail(entries) ELSE entries
  IN  IF hits # {}
      THEN [outcome |-> Returned(entries[hit][2]),
            cache |-> SubSeq(entries, 1, hit - 1) \o SubSeq(entries, hit + 1, Len(entries))
                        \o <<entries[hit]>>]
      ELSE IF call.raised # ""
      THEN [outcome |-> call, cache |-> entries]
      ELSE [outcome |-> call, cache |-> Append(room, <<key, call.value>>)]

(***************************************************************************)
(* pandas tables: the set of column names and the rows, each row a         *)
(* function from column name to value.  pd.DataFrame() has neither.        *)
(***************************************************************************)
Table(cols, rows) == [cols |-> cols, rows |-> rows]

\* DataFrame.empty
IsEmpty(df) == df.rows = <<>> \/ df.cols = {}

\* df[c] = vals
WithColumn(df, c, vals) ==
  Table(df.cols \cup {c},
        IF df.rows = <<>> THEN <<>>
        ELSE [i \in 1..Len(df.rows) |->
                [k \in (DOMAIN df.rows[i]) \cup {c} |->
                   IF k = c THEN vals[i] ELSE df.rows[i][k]]])

\* df[df[keycol] == key][col].sum(); the sum of no rows is 0
RECURSIVE SumWhere(_, _, _, _)
SumWhere(rows, col, keycol, key) ==
  IF rows = <<>> THEN Zero
  ELSE LET rest == SumWhere(Tail(rows), col, keycol, key)
       IN  IF Head(rows)[keycol] = key THEN RatAdd(Head(rows)[col], rest) ELSE rest

\* df[col].sum()
RECURSIVE SumColumn(_, _)
SumColumn(rows, col) ==
  IF rows = <<>> THEN Zero
  ELSE RatAdd(Head(rows)[col], SumColumn(Tail(rows), col))

\* set(df[col].unique())
Unique(df, col) == {df.rows[i][col] : i \in 1..Len(df.rows)}

(***************************************************************************)
(* data_processor.calculate_coverage_metrics                               *)
(***************************************************************************)
DefaultDays == 30

\* the days parameter: <<>> when the caller omits it, <<d>> when it passes d
DaysOf(days_arg) == IF days_arg = <<>> THEN DefaultDays ELSE days_arg[1]

\* Series.astype(int) on a string of digits
AsInt(term) == DigitsVal(term)

\* x / y of floats; 0/0 is nan, written 0/0 (no other division by 0 arises)
FloatDiv(x, y) == IF y.n = 0 THEN [n |-> 0, d |-> 0] ELSE RatDiv(x, y)

\* the row's cost over a fixed 30 days, whatever days is
OnDemandCostEquivalent_Fixed30(row, days) ==
  RatMul(
    RatDiv(
      RatMul(
        RatAdd(RatAdd(RatDiv(row["Upfront cost"], RatOfInt(12 * AsInt(row["Term"]))),
                      row["Recurring monthly cost"]),
               row["Estimated savings"]),
        RatOfInt(12)),
      RatOfInt(365)),
    RatOfInt(30))

\* the row's cost with the upfront cost spread over the years, not the months
OnDemandCostEquivalent_PerYear(row, days) ==
  RatMul(
    RatDiv(
      RatMul(
        RatAdd(RatAdd(RatDiv(row["Upfront cost"], RatOfInt(AsInt(row["Term"]))),
                      row["Recurring monthly cost"]),
               row["Estimated savings"]),
        RatOfInt(12)),
      RatOfInt(365)),
    RatOfInt(days))

\* one row of recommendations_df['On-Demand cost equivalent']
OnDemandCostEquivalent(row, days) ==
  RatMul(
    RatDiv(
      RatMul(
        RatAdd(RatAdd(RatDiv(row["Upfront cost"], RatOfInt(12 * AsInt(row["Term"]))),
                      row["Recurring monthly cost"]),
               row["Estimated savings"]),
        RatOfInt(12)),
      RatOfInt(365)),
    RatOfInt(days))

\* df['Region'].apply(get_region_name_code_mapping)
RegionCodes(df) ==
  [i \in 1..Len(df.rows) |-> get_region_name_code_mapping(df.rows[i]["Region"])]

\* the exception the apply raises, "" if none
ApplyRaises(df) ==
  IF "Region" \notin df.cols THEN "KeyError"
  ELSE IF \E i \in 1..Len(df.rows) : RegionCodes(df)[i].raised # ""
  THEN "RegionMappingError"
  ELSE ""

\* the recommendations table after the first block of the function
PrepareRecommendations(df, days) ==
  IF ~IsEmpty(df)
  THEN LET coded == WithColumn(df, "RegionCode",
                               [i \in 1..Len(df.rows) |-> RegionCodes(df)[i].value])
       IN  WithColumn(coded, "On-Demand cost equivalent",
                      [i \in 1..Len(df.rows) |-> OnDemandCostEquivalent(df.rows[i], days)])
  ELSE WithColumn(WithColumn(df, "RegionCode", <<>>), "On-Demand cost equivalent", <<>>)

\* the utilization table after the second block of the function
PrepareUtilization(df) ==
  IF ~IsEmpty(df)
  THEN WithColumn(df, "RegionCode",
                  [i \in 1..Len(df.rows) |-> RegionCodes(df)[i].value])
  ELSE WithColumn(df, "RegionCode", <<>>)

\* overall coverage percentage without the guard on the total
OverallCoverage_Unguarded(total_ri_cost, total_od_cost) ==
  RatMul(FloatDiv(total_ri_cost, RatAdd(total_ri_cost, total_od_cost)), RatOfInt(100))

\* overall coverage percentage
OverallCoverage(total_ri_cost, total_od_cost) ==
  LET total_cost == RatAdd(total_ri_cost, total_od_cost)
  IN  IF RatGt0(total_cost)
      THEN RatMul(FloatDiv(total_ri_cost, total_cost), RatOfInt(100))
      ELSE Zero

\* the keys taken from the utilization rows alone
UniqueRegions_UtilizationOnly(utilization_df, recommendations_df) ==
  Unique(utilization_df, "RegionCode")

\* the keys of the per-region mappings
UniqueRegions(utilization_df, recommendations_df) ==
  Unique(utilization_df, "RegionCode") \cup Unique(recommendations_df, "RegionCode")

\* coverage of one region
RegionCoverage(region_ri_cost, region_od_cost) ==
  LET region_total_cost == RatAdd(region_ri_cost, region_od_cost)
  IN  IF RatGt0(region_total_cost)
      THEN RatMul(FloatDiv(region_ri_cost, region_total_cost), RatOfInt(100))
      ELSE Zero

\* the engines of the recommendations alone
UniqueEngines_RecommendationsOnly(utilization_df, recommendations_df) ==
  Unique(recommendations_df, "Database engine")

\* the keys of the per-engine mappings
UniqueEngines(utilization_df, recommendations_df) ==
  Unique(utilization_df, "Database engine") \cup Unique(recommendations_df, "Database engine")

\* coverage of one database engine
EngineCoverage(engine_ri_cost, engine_od_cost) ==
  LET engine_total_cost == RatAdd(engine_ri_cost, engine_od_cost)
  IN  IF RatGt0(engine_total_cost)
      THEN RatMul(FloatDiv(engine_ri_cost, engine_total_cost), RatOfInt(100))
      ELSE Zero

\* the CoverageResult built from the two prepared tables
CoverageResult(rec, util) ==
  LET total_ri_cost == SumColumn(util.rows, "On-Demand cost equivalent")
      total_od_cost == SumColumn(rec.rows, "On-Demand cost equivalent")
      unique_regions == UniqueRegions(util, rec)
      unique_engines == UniqueEngines(util, rec)
      ri_region == [r \in unique_regions |->
                      SumWhere(util.rows, "On-Demand cost equivalent", "RegionCode", r)]
      od_region == [r \in unique_regions |->
                      SumWhere(rec.rows, "On-Demand cost equivalent", "RegionCode", r)]
      ri_engine == [e \in unique_engines |->
                      SumWhere(util.rows, "On-Demand cost equivalent", "Database engine", e)]
      od_engine == [e \in unique_engines |->
                      SumWhere(rec.rows, "On-Demand cost equivalent", "Database engine", e)]
  IN  [overall_ri_coverage |-> OverallCoverage(total_ri_cost, total_od_cost),
       overall_ri_cost |-> total_ri_cost,
       overall_od_cost |-> total_od_cost,
       ri_coverage_per_region |->
         [r \in unique_regions |-> RegionCoverage(ri_region[r], od_region[r])],
       ri_cost_per_region |-> ri_region,
       od_cost_per_region |-> od_region,
       ri_coverage_per_database_engine |->
         [e \in unique_engines |-> EngineCoverage(ri_engine[e], od_engine[e])],
       ri_cost_per_database_engine |-> ri_engine,
       od_cost_per_database_engine |-> od_engine]

\* The whole call: the two tables as the call leaves them (they are changed
\* in place) and its outcome.  An exception leaves the tables as they were
\* when it was raised.
calculate_coverage_metrics(recommendations_df, utilization_df, days) ==
  LET rec  == PrepareRecommendations(recommendations_df, days)
      util == PrepareUtilization(utilization_df)
      out(r, u, o) == [recommendations_df |-> r, utilization_df |-> u, outcome |-> o]
  IN  IF ~IsEmpty(recommendations_df) /\ ApplyRaises(recommendations_df) # ""
      THEN out(recommendations_df, utilization_df, Raised(ApplyRaises(recommendations_df)))
      ELSE IF ~IsEmpty(recommendations_df)
              /\ {"Upfront cost", "Term", "Recurring monthly cost", "Estimated savings"}
                   \ recommendations_df.cols # {}
      THEN out(WithColumn(recommendations_df, "RegionCode",
                          [i \in 1..Len(recommendations_df.rows) |->
                             RegionCodes(recommendations_df)[i].value]),
               utilization_df, Raised("KeyError"))
      ELSE IF ~IsEmpty(utilization_df) /\ ApplyRaises(utilization_df) # ""
      THEN out(rec, utilization_df, Raised(ApplyRaises(utilization_df)))
      ELSE IF "On-Demand cost equivalent" \notin util.cols
      THEN out(rec, util, Raised("KeyError"))
      ELSE IF "Database engine" \notin util.cols \/ "Database engine" \notin rec.cols
      THEN out(rec, util, Raised("KeyError"))
      ELSE out(rec, util, Returned(CoverageResult(rec, util)))

(***************************************************************************)
(* main.analyze_cost_coverage                                              *)
(***************************************************************************)
\* the table the command works on: the table read of the report or, for a
\* report that is not given (a table of no column here), the table of the
\* required columns and no row
LoadedReport(report, columns) ==
  IF report.cols = {} THEN Table(columns, <<>>) ELSE report

\* total_ri_cost / (total_ri_cost + total_od_cost) * 100, nan where both are 0
CommandOverallCoverage(total_ri_cost, total_od_cost) ==
  RatMul(FloatDiv(total_ri_cost, RatAdd(total_ri_cost, total_od_cost)), RatOfInt(100))

\* The command: the outcomes it can end in.  The cost equivalent is taken
\* over 30 days whatever days is, which is only printed.  The charts of
\* output_picture_format are drawn of every result; of an overall coverage
\* that is nan the pie chart is drawn or refused, as the plotting library
\* decides.
analyze_cost_coverage(recommendations_report, utilization_report, days) ==
  LET recommendations_df ==
        LoadedReport(recommendations_report,
                     {"Region", "Database engine", "Upfront cost",
                      "Recurring monthly cost", "Estimated savings"})
      utilization_df ==
        LoadedReport(utilization_report,
                     {"Region", "Database engine", "On-Demand cost equivalent"})
      rec  == PrepareRecommendations(recommendations_df, 30)
      util == PrepareUtilization(utilization_df)
      coverage_result ==
        [CoverageResult(rec, util) EXCEPT
           !.overall_ri_coverage =
              CommandOverallCoverage(SumColumn(util.rows, "On-Demand cost equivalent"),
                                     SumColumn(rec.rows, "On-Demand cost equivalent"))]
  IN  IF ~IsEmpty(recommendations_df) /\ ApplyRaises(recommendations_df) # ""
      THEN {Raised(ApplyRaises(recommendations_df))}
      ELSE IF ~IsEmpty(utilization_df) /\ ApplyRaises(utilization_df) # ""
      THEN {Raised(ApplyRaises(utilization_df))}
      ELSE IF coverage_result.overall_ri_coverage.d = 0
      THEN {Returned(coverage_result), Raised("ValueError")}
      ELSE {Returned(coverage_result)}

(***************************************************************************)
(* utils.calculate_days                                                    *)
(***************************************************************************)
DaysInMonth(y, m) ==
  LET IsLeap == (y % 4 = 0) /\ ((y % 100 # 0) \/ (y % 400 = 0))
  IN  IF m = 2 THEN (IF IsLeap THEN 29 ELSE 28)
      ELSE IF m \in {4, 6, 9, 11} THEN 30 ELSE 31

RECURSIVE DaysBeforeMonth(_, _)
DaysBeforeMonth(y, m) ==
  IF m = 1 THEN 0 ELSE DaysBeforeMonth(y, m - 1) + DaysInMonth(y, m - 1)

\* date.toordinal(): the days before January 1st of the year, the days
\* before the month, and the day
Ordinal(ymd) ==
  LET p == ymd[1] - 1
  IN  p * 365 + (p \div 4) - (p \div 100) + (p \div 400)
        + DaysBeforeMonth(ymd[1], ymd[2]) + ymd[3]

\* datetime.strptime(s, "%Y-%m-%d"): <<year, month, day>>, or <<>> for a
\* ValueError.  The year is four digits; month and day may be one digit; the
\* whole string must be used up and name a day of the calendar.
\* The directive %m takes 1[0-2] | 0[1-9] | [1-9], and the directive %d
\* takes 3[01] | [12]\d | 0[1-9] | [1-9] | " "[1-9].
ParseDate(s) ==
  LET IsMonthText(t) == AllDigits(t) /\ Len(t) <= 2 /\ DigitsVal(t) \in 1..12
      IsDayText(t) ==
        \/ AllDigits(t) /\ Len(t) <= 2 /\ DigitsVal(t) \in 1..31
        \/ Len(t) = 2 /\ t[1] = " " /\ IsDigit(t[2]) /\ t[2] # "0"
      dashes == {i \in 6..Len(s) : s[i] = "-"}
      p      == CHOOSE i \in dashes : \A j \in dashes : i <= j
      mtext  == SubSeq(s, 6, p - 1)
      dtext  == From(s, p + 1)
      y      == DigitsVal(Take(s, 4))
      m      == DigitsVal(mtext)
      d      == DigitsVal(IF dtext[1] = " " THEN Tail(dtext) ELSE dtext)
  IN  IF /\ Len(s) >= 5
         /\ AllDigits(Take(s, 4))
         /\ s[5] = "-"
         /\ dashes # {}
         /\ IsMonthText(mtext)
         /\ IsDayText(dtext)
         /\ y >= 1
         /\ d <= DaysInMonth(y, m)
      THEN <<y, m, d>>
      ELSE <<>>

\* delta.days, without the + 1
InclusiveDays_Exclusive(start, end) == Ordinal(end) - Ordinal(start)

\* delta.days + 1
InclusiveDays(start, end) == Ordinal(end) - Ordinal(start) + 1

calculate_days(start_date, end_date) ==
  IF ParseDate(start_date) = <<>> \/ ParseDate(end_date) = <<>>
  THEN Raised("DateFormatError")
  ELSE Returned(InclusiveDays(ParseDate(start_date), ParseDate(end_date)))

(***************************************************************************)
(* data_processor.process_instance_data                                    *)
(***************************************************************************)
NegInf == [kind |-> "-inf", val |-> Zero]

\* the sign of a float that is not nan
Sign(x) ==
  IF x.kind = "inf" THEN 1
  ELSE IF x.kind = "-inf" THEN -1
  ELSE IF x.val.n > 0 THEN 1 ELSE IF x.val.n < 0 THEN -1 ELSE 0

\* x * y of floats
FloatMul(x, y) ==
  IF x.kind = "nan" \/ y.kind = "nan" THEN NaN
  ELSE IF x.kind = "num" /\ y.kind = "num" THEN Num(RatMul(x.val, y.val))
  ELSE IF Sign(x) * Sign(y) = 0 THEN NaN
  ELSE IF Sign(x) * Sign(y) > 0 THEN Inf ELSE NegInf

\* a column of numbers divided by an int: a division by 0 gives inf, -inf or
\* nan and raises nothing
SeriesDiv(x, k) ==
  IF k # 0 THEN Num(RatDiv(x, RatOfInt(k)))
  ELSE IF x.n > 0 THEN Inf ELSE IF x.n < 0 THEN NegInf ELSE NaN

\* the running hours per day of the range
EstInstanceAmount_PerDay(running_hours, total_days) == SeriesDiv(running_hours, total_days)

\* df['Total running hours'] / (24 * total_days)
EstInstanceAmount(running_hours, total_days) == SeriesDiv(running_hours, 24 * total_days)

\* every Oracle engine taken as eligible, whatever its licence
ShouldConvert_AnyOracle(engine) ==
  LET e == Lower(engine)
  IN  \/ Contains(e, <<"a","u","r","o","r","a">>)
      \/ \E x \in {<<"m","a","r","i","a","d","b">>, <<"m","y","s","q","l">>,
                  <<"p","o","s","t","g","r","e","s","q","l">>} : Contains(e, x)
      \/ Contains(e, <<"o","r","a","c","l","e">>)

\* should_convert
ShouldConvert(engine) ==
  LET e == Lower(engine)
  IN  \/ Contains(e, <<"a","u","r","o","r","a">>)
      \/ \E x \in {<<"m","a","r","i","a","d","b">>, <<"m","y","s","q","l">>,
                  <<"p","o","s","t","g","r","e","s","q","l">>} : Contains(e, x)
      \/ (Contains(e, <<"o","r","a","c","l","e">>) /\ Contains(e, <<"b","y","o","l">>))

\* the test without medium
IsSmallSize_NoMedium(instance_class) ==
  \E size \in {micro, small} : Contains(Lower(instance_class), size)

\* any(size in instance_class.lower() for size in ['micro', 'small', 'medium'])
IsSmallSize(instance_class) ==
  \E size \in {micro, small, medium} : Contains(Lower(instance_class), size)

\* what the loop settles for one row: the base size and the factor, whether
\* convert_instance_class was called, and whether a warning was printed
Sizing(base, factor, invoked, warned) ==
  [base |-> base, factor |-> factor, invoked |-> invoked, warned |-> warned]

\* the handler without its print
FallbackSizing_Silent(instance_class) ==
  Sizing(instance_class, Num(RatOfInt(1)), TRUE, FALSE)

\* except InstanceClassError: print the warning, keep the class, factor 1.0
FallbackSizing(instance_class) ==
  Sizing(instance_class, Num(RatOfInt(1)), TRUE, TRUE)

\* the body of the loop for one row
RowSizing(row) ==
  LET instance_class == row["Instance class"]
      call == convert_instance_class(PyStr(instance_class))
  IN  IF ShouldConvert(row["Database engine"])
      THEN IF IsSmallSize(instance_class)
           THEN Sizing(instance_class, Num(RatOfInt(1)), FALSE, FALSE)
           ELSE IF call.raised # ""
           THEN FallbackSizing(instance_class)
           ELSE Sizing(call.value[1], call.value[2], TRUE, FALSE)
      ELSE Sizing(instance_class, Num(RatOfInt(1)), FALSE, FALSE)

\* the amount left as it is for every deployment option
TotalAmount_NeverDoubled(est_instance_amount, size_factor, deployment_option) ==
  FloatMul(est_instance_amount, size_factor)

MultiAZ == <<"M","u","l","t","i","-","A","Z">>

\* est_instance_amounts * size_factors, doubled where the option is Multi-AZ
TotalAmount(est_instance_amount, size_factor, deployment_option) ==
  IF deployment_option # MultiAZ
  THEN FloatMul(est_instance_amount, size_factor)
  ELSE FloatMul(FloatMul(est_instance_amount, size_factor), Num(RatOfInt(2)))

\* est_instance_amounts * size_factors * df['Average coverage']
RICoveredAmount(est_instance_amount, size_factor, average_coverage) ==
  FloatMul(FloatMul(est_instance_amount, size_factor), Num(average_coverage))

\* the lines printed, in the order of the rows: each is "Warning: " and the
\* message of the InstanceClassError, which names the instance class
RECURSIVE Warnings(_)
Warnings(rows) ==
  IF rows = <<>> THEN <<>>
  ELSE (IF RowSizing(Head(rows)).warned
        THEN << <<"Warning: InstanceClassError", Head(rows)["Instance class"]>> >>
        ELSE <<>>) \o Warnings(Tail(rows))

\* the instance classes convert_instance_class is called with, in order
RECURSIVE Invocations(_)
Invocations(rows) ==
  IF rows = <<>> THEN <<>>
  ELSE (IF RowSizing(Head(rows)).invoked
        THEN <<Head(rows)["Instance class"]>>
        ELSE <<>>) \o Invocations(Tail(rows))

UsageColumns ==
  {"Region", "Database engine", "Instance class", "Deployment option",
   "Total running hours", "Average coverage"}

ProcessedColumns ==
  {"Total days", "(est.) Instance amount", "Base instance size", "Instance size factor",
   "Total amount", "RI covered amount", "region_code"}

\* one row of df_processed
ProcessedRow(row, total_days) ==
  LET sizing == RowSizing(row)
      est    == EstInstanceAmount(row["Total running hours"], total_days)
  IN  [c \in (DOMAIN row) \cup ProcessedColumns |->
         CASE c = "Total days" -> total_days
           [] c = "(est.) Instance amount" -> est
           [] c = "Base instance size" -> sizing.base
           [] c = "Instance size factor" -> sizing.factor
           [] c = "Total amount" -> TotalAmount(est, sizing.factor, row["Deployment option"])
           [] c = "RI covered amount" ->
                RICoveredAmount(est, sizing.factor, row["Average coverage"])
           [] c = "region_code" -> get_region_name_code_mapping(row["Region"]).value
           [] OTHER -> row[c]]

\* the call: its outcome, the lines it printed, and the calls it made of
\* convert_instance_class.  The table handed in is not written to.
ProcessResult(outcome, printed, invoked) ==
  [outcome |-> outcome, warnings |-> printed, invocations |-> invoked]

process_instance_data(df, start, end) ==
  LET counted    == calculate_days(start, end)
      total_days == counted.value
  IN  IF counted.raised # "" THEN ProcessResult(counted, <<>>, <<>>)
      ELSE IF ~(UsageColumns \subseteq df.cols) THEN ProcessResult(Raised("KeyError"), <<>>, <<>>)
      ELSE ProcessResult(
             IF ApplyRaises(df) # "" THEN Raised(ApplyRaises(df))
             ELSE Returned(Table(df.cols \cup ProcessedColumns,
                                 [i \in 1..Len(df.rows) |->
                                    ProcessedRow(df.rows[i], total_days)])),
             Warnings(df.rows), Invocations(df.rows))

(***************************************************************************)
(* data_processor.create_coverage_analysis                                 *)
(***************************************************************************)
\* x + y of floats
FloatAdd(x, y) ==
  IF x.kind = "nan" \/ y.kind = "nan" THEN NaN
  ELSE IF x.kind = "num" /\ y.kind = "num" THEN Num(RatAdd(x.val, y.val))
  ELSE IF x.kind = "num" THEN y
  ELSE IF y.kind = "num" \/ x.kind = y.kind THEN x
  ELSE NaN

\* x / y of two columns of floats: a division by 0 raises nothing
FloatQuot(x, y) ==
  IF x.kind = "nan" \/ y.kind = "nan" THEN NaN
  ELSE IF y.kind # "num" THEN (IF x.kind = "num" THEN Num(Zero) ELSE NaN)
  ELSE IF x.kind # "num" THEN (IF y.val.n < 0 THEN FloatMul(x, Num(RatOfInt(-1))) ELSE x)
  ELSE IF y.val.n # 0 THEN Num(RatDiv(x.val, y.val))
  ELSE IF x.val.n > 0 THEN Inf ELSE IF x.val.n < 0 THEN NegInf ELSE NaN

\* the index of detailed_coverage: the three keys of a group
GroupIndex == <<"region_code", "Database engine", "Base instance size">>

\* .agg({col: 'sum'}) for one group: the sum of the column over the rows of
\* the group, a nan left out
RECURSIVE GroupSum(_, _, _)
GroupSum(rows, col, key) ==
  IF rows = <<>> THEN Num(Zero)
  ELSE LET row == Head(rows)
           rest == GroupSum(Tail(rows), col, key)
       IN  IF [k \in 1..3 |-> row[GroupIndex[k]]] # key \/ row[col].kind = "nan"
           THEN rest
           ELSE FloatAdd(row[col], rest)

\* the detailed coverage the caller builds of the processed table: one row
\* for each group, with the two sums and the Coverage percentage, the groups
\* in the order of keys
DetailedCoverage(df, keys) ==
  Table({"region_code", "Database engine", "Base instance size", "RI covered amount",
         "Total amount", "Coverage percentage"},
        [i \in 1..Len(keys) |->
           LET ri    == GroupSum(df.rows, "RI covered amount", keys[i])
               total == GroupSum(df.rows, "Total amount", keys[i])
           IN  [c \in {"region_code", "Database engine", "Base instance size",
                       "RI covered amount", "Total amount", "Coverage percentage"} |->
                  CASE c = "RI covered amount" -> ri
                    [] c = "Total amount" -> total
                    [] c = "Coverage percentage" ->
                         FloatMul(FloatQuot(ri, total), Num(RatOfInt(100)))
                    [] c = "region_code" -> keys[i][1]
                    [] c = "Database engine" -> keys[i][2]
                    [] OTHER -> keys[i][3]]])

\* the target taken as a fraction already
TargetCoveredAmount_Fraction(target_coverage, current_total) ==
  FloatMul(Num(target_coverage), current_total)

\* (target_coverage / 100) * current_total
TargetCoveredAmount(target_coverage, current_total) ==
  FloatMul(Num(RatDiv(target_coverage, RatOfInt(100))), current_total)

AnalysisColumns ==
  {"Region", "Database engine", "Base instance size", "Current coverage (%)",
   "Current covered amount", "Current total amount", "Target covered amount",
   "Required change"}

\* the call: the pivot table of df is built and not used; one dict is
\* appended for each row of detailed_coverage, in its order.  A list of no
\* dict makes a table of no column.
create_coverage_analysis(df, detailed_coverage, target_coverage) ==
  IF ~({"RI covered amount", "Total amount"} \cup Range(GroupIndex) \subseteq df.cols)
  THEN Raised("KeyError")
  ELSE Returned(
         Table(IF detailed_coverage.rows = <<>> THEN {} ELSE AnalysisColumns,
               [i \in 1..Len(detailed_coverage.rows) |->
                  LET row == detailed_coverage.rows[i]
                      target_covered_amount ==
                        TargetCoveredAmount(target_coverage, row["Total amount"])
                  IN  [c \in AnalysisColumns |->
                         CASE c = "Region" -> row["region_code"]
                           [] c = "Current coverage (%)" -> row["Coverage percentage"]
                           [] c = "Current covered amount" -> row["RI covered amount"]
                           [] c = "Current total amount" -> row["Total amount"]
                           [] c = "Target covered amount" -> target_covered_amount
                           [] c = "Required change" ->
                                FloatAdd(target_covered_amount,
                                         FloatMul(row["RI covered amount"],
                                                  Num(RatOfInt(-1))))
                           [] OTHER -> row[c]]]))

(***************************************************************************)
(* main.analyze_target_coverage                                            *)
(***************************************************************************)
\* The loop of the command over the rows left.  lists holds the five lists
\* and the warnings printed so far; size_factor is the local variable of
\* that name, <<>> while nothing is bound to it: only a call of
\* convert_instance_class that returns binds it.  The handler is for
\* ValueError alone, so an InstanceClassError leaves the loop.
RECURSIVE TargetRows(_, _, _, _)
TargetRows(rows, total_days, size_factor, lists) ==
  IF rows = <<>> THEN [raised |-> "", lists |-> lists]
  ELSE LET row == Head(rows)
           body(instance_class, est_instance_amount, converts, call) ==
             LET bound == IF converts THEN <<call.value[2]>> ELSE size_factor
                 kept == [lists EXCEPT
                            !.est_instance_amounts = Append(@, est_instance_amount),
                            !.base_sizes = Append(@, instance_class),
                            !.size_factors = Append(@, Num(RatOfInt(1)))]
             IN  IF converts /\ call.raised = "ValueError"
                 THEN TargetRows(Tail(rows), total_days, size_factor,
                                 [kept EXCEPT !.warnings =
                                    Append(@, <<"Warning: ValueError", instance_class>>)])
                 ELSE IF converts /\ call.raised # ""
                 THEN [raised |-> call.raised, lists |-> lists]
                 ELSE IF bound = <<>>
                 THEN [raised |-> "UnboundLocalError", lists |-> kept]
                 ELSE TargetRows(Tail(rows), total_days, bound,
                        [lists EXCEPT
                           !.est_instance_amounts = Append(@, est_instance_amount),
                           !.base_sizes =
                              Append(@, IF converts THEN call.value[1] ELSE instance_class),
                           !.size_factors =
                              Append(@, IF converts THEN call.value[2] ELSE Num(RatOfInt(1))),
                           !.total_amounts =
                              Append(@, TotalAmount(est_instance_amount, bound[1],
                                                    row["Deployment option"])),
                           !.ri_covered_amounts =
                              Append(@, RICoveredAmount(est_instance_amount, bound[1],
                                                        row["Average coverage"]))])
       IN  body(row["Instance class"],
                EstInstanceAmount(row["Total running hours"], total_days),
                ShouldConvert(row["Database engine"]) /\ ~IsSmallSize(row["Instance class"]),
                convert_instance_class(PyStr(row["Instance class"])))

\* The command on the table read of the CSV file: the outcomes it can end
\* in, each with the warnings printed.  A file read_csv finds no column in
\* ends the command as a date strptime rejects does.  The report of the
\* console and of the HTML file is written of every table with rows; of a
\* table of no row it is written or fails, as the libraries decide.
analyze_target_coverage(df, start_date, end_date) ==
  LET end(outcome, printed) == [outcome |-> outcome, warnings |-> printed]
      command(counted, total_days, loop, region_codes) ==
        LET out == Table(df.cols \cup ProcessedColumns,
                     [i \in 1..Len(df.rows) |->
                        [c \in (DOMAIN df.rows[i]) \cup ProcessedColumns |->
                           CASE c = "Total days" -> total_days
                             [] c = "(est.) Instance amount" ->
                                  loop.lists.est_instance_amounts[i]
                             [] c = "Base instance size" -> loop.lists.base_sizes[i]
                             [] c = "Instance size factor" -> loop.lists.size_factors[i]
                             [] c = "Total amount" -> loop.lists.total_amounts[i]
                             [] c = "RI covered amount" -> loop.lists.ri_covered_amounts[i]
                             [] c = "region_code" -> region_codes[i].value
                             [] OTHER -> df.rows[i][c]]])
        IN  IF counted.raised # "" \/ df.cols = {} THEN {end(Raised("Exit"), <<>>)}
            ELSE IF ~(UsageColumns \subseteq df.cols) THEN {end(Raised("KeyError"), <<>>)}
            ELSE IF df.rows # <<>> /\ total_days = 0
            THEN {end(Raised("ZeroDivisionError"), <<>>)}
            ELSE IF loop.raised # "" THEN {end(Raised(loop.raised), loop.lists.warnings)}
            ELSE IF Len(loop.lists.total_amounts) # Len(df.rows)
            THEN {end(Raised("ValueError"), loop.lists.warnings)}
            ELSE IF \E i \in 1..Len(df.rows) : region_codes[i].raised # ""
            THEN {end(Raised("RegionMappingError"), loop.lists.warnings)}
            ELSE IF df.rows = <<>>
            THEN {end(Returned(out), <<>>), end(Raised("Exception"), <<>>)}
            ELSE {end(Returned(out), loop.lists.warnings)}
  IN  command(calculate_days(start_date, end_date),
              calculate_days(start_date, end_date).value,
              TargetRows(df.rows, calculate_days(start_date, end_date).value, <<>>,
                         [base_sizes |-> <<>>, size_factors |-> <<>>,
                          est_instance_amounts |-> <<>>, total_amounts |-> <<>>,
                          ri_covered_amounts |-> <<>>, warnings |-> <<>>]),
              RegionCodes(df))

(***************************************************************************)
(* The instance classes the function is called with.                       *)
(***************************************************************************)
\* str(n) for n >= 0
RECURSIVE Dec(_)
Dec(n) == IF n < 10 THEN <<Digits[n + 1]>> ELSE Dec(n \div 10) \o <<Digits[(n % 10) + 1]>>

Families == {<<"m","5">>, <<"r","5">>, <<"t","3">>, <<"r","6","g">>}

NamedSizes == {large, xlarge, medium, small, micro}

MultipleSizes == {Dec(n) \o xlarge : n \in 0..MaxMultiplier}

\* tokens that are no size at all
UnknownSizes ==
  {<<"u","n","k","n","o","w","n">>, <<"l","a","r","g">>, <<"x","l">>,
   <<"2","x">>, <<"n","a","n","o">>, <<"l","a","r","g","e","2">>,
   <<"m","e","d","i","u","m","s">>}

\* tokens that contain xlarge without being <N>xlarge
XlargeLikeSizes ==
  {<<"2">> \o xlarge \o <<"f","o","o">>, xlarge \o <<"f","o","o">>,
   xlarge \o <<"2">>, <<"a","b","c">> \o xlarge, <<"n","a","n">> \o xlarge,
   <<"i","n","f">> \o xlarge, <<"1","e","1">> \o xlarge,
   <<"2">> \o xlarge \o <<"2">> \o xlarge, <<"2","x">> \o xlarge}

\* what may follow the size token
Suffixes ==
  {<<>>, <<".","e","x","t","r","a">>, <<".">>, <<"-","x">>, <<"X">>, <<" ">>,
   <<" ","x">>, <<"/">>}

\* what may stand for the db. prefix
Prefixes ==
  {db_dot, <<>>, <<"D","B",".">>, <<"d","b">>, <<"x","d","b",".">>,
   <<" ","d","b",".">>, <<"r","d","s",".">>}

\* every spelling of s in upper and lower case
CaseVariants(s) ==
  {[i \in 1..Len(s) |-> IF i \in U THEN UpperChar(s[i]) ELSE s[i]] :
     U \in SUBSET (1..Len(s))}

Class(prefix, family, size) == prefix \o family \o <<".">> \o size

InstanceClassInputs ==
  {PyNone, PyInt(<<"1","2","3">>), PyInt(<<"0">>)}
  \cup {PyStr(s) : s \in
         {<<>>, <<" ">>, <<"d","b",".","m","5">>, <<"d","b",".","m","5",".">>,
          <<"d","b",".",".","l","a","r","g","e">>,
          <<"i","n","v","a","l","i","d",".","f","o","r","m","a","t">>}}
  \cup {PyStr(Class(db_dot, f, z) \o x) :
          f \in Families,
          z \in NamedSizes \cup MultipleSizes \cup UnknownSizes \cup XlargeLikeSizes,
          x \in Suffixes}
  \cup {PyStr(Class(p, f, z)) :
          p \in Prefixes, f \in Families \cup {<<>>, <<"M","5">>}, z \in NamedSizes}
  \cup {PyStr(Class(db_dot, <<"m","5">>, v)) :
          v \in UNION {CaseVariants(z) : z \in NamedSizes \cup {<<"2">> \o xlarge}}}

(***************************************************************************)
(* The report tables calculate_coverage_metrics is called with.            *)
(***************************************************************************)
PostgreSQL == <<"P","o","s","t","g","r","e","S","Q","L">>

MySQL == <<"M","y","S","Q","L">>

AuroraMySQL == <<"A","u","r","o","r","a"," ","M","y","S","Q","L">>

USEastNVirginia ==
  <<"U","S"," ","E","a","s","t"," ","(","N","."," ","V","i","r","g","i","n","i","a",")">>

USWestOregon == <<"U","S"," ","W","e","s","t"," ","(","O","r","e","g","o","n",")">>

EUIreland == <<"E","U"," ","(","I","r","e","l","a","n","d",")">>

EuropeIreland == <<"E","u","r","o","p","e"," ","(","I","r","e","l","a","n","d",")">>

EuropeFrankfurt ==
  <<"E","u","r","o","p","e"," ","(","F","r","a","n","k","f","u","r","t",")">>

\* a name that is in no table
AtlantisCentral ==
  <<"A","t","l","a","n","t","i","s"," ","(","C","e","n","t","r","a","l",")">>

RecommendationColumns ==
  {"Region", "Database engine", "Term", "Upfront cost", "Recurring monthly cost",
   "Estimated savings"}

UtilizationColumns == {"Region", "Database engine", "On-Demand cost equivalent"}

RecommendationRow(region, engine, term, upfront, recurring, savings) ==
  [c \in RecommendationColumns |->
     CASE c = "Region" -> region
       [] c = "Database engine" -> engine
       [] c = "Term" -> term
       [] c = "Upfront cost" -> RatOfInt(upfront)
       [] c = "Recurring monthly cost" -> RatOfInt(recurring)
       [] c = "Estimated savings" -> RatOfInt(savings)]

UtilizationRow(region, engine, cost) ==
  [c \in UtilizationColumns |->
     CASE c = "Region" -> region
       [] c = "Database engine" -> engine
       [] c = "On-Demand cost equivalent" -> RatOfInt(cost)]

\* the two rows of the test fixture, a row that costs nothing, and a row of
\* an unknown region
RecommendationRows ==
  {RecommendationRow(USEastNVirginia, PostgreSQL, <<"1">>, 2000, 500, 200),
   RecommendationRow(USWestOregon, MySQL, <<"3">>, 5000, 400, 300),
   RecommendationRow(EUIreland, MySQL, <<"1">>, 0, 0, 0),
   RecommendationRow(AtlantisCentral, PostgreSQL, <<"3">>, 1200, 0, 100)}

\* a row of the test fixture, a row that costs nothing, and a row of a region
\* and an engine no recommendation has
UtilizationRows ==
  {UtilizationRow(USEastNVirginia, PostgreSQL, 1000),
   UtilizationRow(EuropeIreland, MySQL, 0),
   UtilizationRow(EuropeFrankfurt, AuroraMySQL, 250)}

SeqsUpTo(S, n) == UNION {[1..k -> S] : k \in 0..n}

\* pd.DataFrame(), a table with its columns and no row, or with rows
RecommendationTables ==
  {Table({}, <<>>)}
  \cup {Table(RecommendationColumns, rows) : rows \in SeqsUpTo(RecommendationRows, MaxRows)}

UtilizationTables ==
  {Table({}, <<>>)}
  \cup {Table(UtilizationColumns, rows) : rows \in SeqsUpTo(UtilizationRows, MaxRows)}

\* the days argument: omitted, or given
DaysArguments == {<<>>, <<7>>, <<30>>}

(***************************************************************************)
(* The dates calculate_days and the names get_region_name_code_mapping are *)
(* called with.                                                            *)
(***************************************************************************)
\* the dates are taken from the years FirstYear .. FirstYear + MaxYearSpan
FirstYear == 2022

Pad2(n) == IF n < 10 THEN <<"0">> \o Dec(n) ELSE Dec(n)

\* "%04d-%02d-%02d" for a four-digit year
FormatDate(y, m, d) == Dec(y) \o <<"-">> \o Pad2(m) \o <<"-">> \o Pad2(d)

\* dates in the format YYYY-MM-DD, some of them no day of the calendar, and
\* other texts
DateInputs ==
  {FormatDate(y, m, d) :
     y \in FirstYear..(FirstYear + MaxYearSpan), m \in {1, 2, 3, 12},
     d \in {1, 15, 28, 29, 30, 31}}
  \cup
  {<<>>,
   <<"2","0","2","3","/","0","1","/","1","5">>,
   <<"0","1","-","0","1","-","2","0","2","3">>,
   <<"0","1","/","3","1","/","2","0","2","3">>,
   <<"n","o","t","-","a","-","d","a","t","e">>,
   <<"2","0","2","3","0","1","1","5">>,
   <<"2","3","-","0","1","-","1","5">>,
   <<"2","0","2","3","-","1","-","5">>,
   <<"2","0","2","3","-","0","1","-","5">>,
   <<"2","0","2","3","-","0","1","-"," ","5">>,
   <<"2","0","2","3","-","0","1","-","1","5"," ">>,
   <<"2","0","2","3","-","0","1","-","1","5","T">>,
   <<"2","0","2","3","-","1","3","-","0","1">>,
   <<"2","0","2","3","-","0","0","-","1","0">>,
   <<"2","0","2","3","-","0","1","-","3","2">>,
   <<"2","0","2","3","-","0","1","-","0","0">>,
   <<"2","0","2","3","-","0","1">>,
   <<"0","0","0","0","-","0","1","-","0","1">>}

TableNames == {region_mapping[i][1] : i \in DOMAIN region_mapping}

\* the names of the table that begin with "Europe ", written with "EU "
EUNames ==
  {EU_ \o From(n, 8) : n \in {t \in TableNames : Len(t) >= 7 /\ Take(t, 7) = Europe_}}

\* what may follow "EU " or "Europe "
RegionSuffixes ==
  {From(n, 8) : n \in {t \in TableNames : Len(t) >= 7 /\ Take(t, 7) = Europe_}}
  \cup {<<>>, <<"(","A","t","l","a","n","t","i","s",")">>,
        <<"(","i","r","e","l","a","n","d",")">>, <<"(","L","O","N","D","O","N",")">>,
        <<"E","U"," ","(","P","a","r","i","s",")">>}

RegionNameInputs ==
  TableNames \cup EUNames
  \cup {LowerName(n) : n \in TableNames \cup EUNames}
  \cup {UpperName(n) : n \in TableNames \cup EUNames}
  \cup {EU_ \o x : x \in RegionSuffixes}
  \cup {Europe_ \o x : x \in RegionSuffixes}
  \cup
  {<<>>, <<"E","U">>, AtlantisCentral,
   <<"N","o","n","-","e","x","i","s","t","e","n","t"," ","R","e","g","i","o","n">>,
   <<" ">> \o USWestOregon, USWestOregon \o <<" ">>,
   <<"U","S"," ","W","e","s","t">>, <<"u","s","-","w","e","s","t","-","2">>}

(***************************************************************************)
(* The usage tables and the date ranges process_instance_data is called    *)
(* with.                                                                   *)
(***************************************************************************)
OracleEE == <<"O","r","a","c","l","e"," ","E","E">>

OracleEEBYOL == OracleEE \o <<" ","(","B","Y","O","L",")">>

SingleAZ == <<"S","i","n","g","l","e","-","A","Z">>

UsageRow(region, engine, class, deployment, hours, coverage) ==
  [c \in UsageColumns |->
     CASE c = "Region" -> region
       [] c = "Database engine" -> engine
       [] c = "Instance class" -> class
       [] c = "Deployment option" -> deployment
       [] c = "Total running hours" -> RatOfInt(hours)
       [] c = "Average coverage" -> coverage]

\* the three rows of the test fixture; rows of the sizes below large, of
\* engines that are not converted, of classes convert_instance_class rejects,
\* and of a region outside the table
UsageRows ==
  {UsageRow(USEastNVirginia, PostgreSQL, Class(db_dot, <<"m","5">>, large),
            SingleAZ, 720, Rat(3, 4)),
   UsageRow(USWestOregon, MySQL, Class(db_dot, <<"r","5">>, <<"2">> \o xlarge),
            MultiAZ, 720, Rat(1, 2)),
   UsageRow(EuropeFrankfurt, AuroraMySQL, Class(db_dot, <<"r","6","g">>, xlarge),
            SingleAZ, 720, Rat(4, 5)),
   UsageRow(USEastNVirginia, <<"M","a","r","i","a","D","B">>,
            Class(db_dot, <<"t","3">>, medium), MultiAZ, 360, Rat(1, 1)),
   UsageRow(USEastNVirginia, <<"A","u","r","o","r","a"," ">> \o PostgreSQL,
            Class(db_dot, <<"t","3">>, micro), SingleAZ, 720, Rat(1, 1)),
   UsageRow(USWestOregon, <<"M","Y","S","Q","L">>,
            Class(db_dot, <<"t","3">>, <<"S","M","A","L","L">>), SingleAZ, 240, Rat(1, 4)),
   UsageRow(USWestOregon, <<"M","a","r","i","a","D","B">>,
            Class(<<>>, <<"t","3">>, small), SingleAZ, 720, Rat(1, 2)),
   UsageRow(EUIreland, OracleEEBYOL, Class(db_dot, <<"m","5">>, <<"4">> \o xlarge),
            SingleAZ, 720, Zero),
   UsageRow(USWestOregon, OracleEE, Class(db_dot, <<"m","5">>, <<"4">> \o xlarge),
            MultiAZ \o <<" ","(","r","e","a","d","a","b","l","e"," ","s","t","a","n","d","b","y","s",")">>,
            720, Rat(1, 2)),
   UsageRow(USEastNVirginia, <<"S","Q","L"," ","S","e","r","v","e","r">>,
            Class(db_dot, <<"m","5">>, <<"u","n","k","n","o","w","n">>), MultiAZ, 0, Zero),
   UsageRow(USEastNVirginia, MySQL,
            Class(db_dot, <<"m","5">>, <<"u","n","k","n","o","w","n">>), SingleAZ, 720, Rat(1, 2)),
   UsageRow(USWestOregon, PostgreSQL, Class(<<>>, <<"m","5">>, large),
            MultiAZ, 720, Rat(3, 4)),
   UsageRow(AtlantisCentral, PostgreSQL, Class(db_dot, <<"m","5">>, large),
            SingleAZ, 720, Rat(1, 2))}

\* pd.DataFrame(), a table with its columns and no row, or with rows
UsageTables ==
  {Table({}, <<>>)}
  \cup {Table(UsageColumns, rows) : rows \in SeqsUpTo(UsageRows, MaxRows)}

\* every table over the range of the tests (30 days), and the tables of at
\* most one row over ranges of 32 days, of one day, of no day, of an end
\* before the start, of dates written without their zeros, and over ranges
\* with a date that strptime rejects
ProcessInputs ==
  LET TestRange == <<FormatDate(2023, 1, 1), FormatDate(2023, 1, 30)>>
      OtherRanges ==
        {<<FormatDate(2023, 1, 15), FormatDate(2023, 2, 15)>>,
         <<FormatDate(2024, 2, 29), FormatDate(2024, 2, 29)>>,
         <<FormatDate(2023, 1, 1), FormatDate(2022, 12, 31)>>,
         <<FormatDate(2023, 1, 30), FormatDate(2023, 1, 1)>>,
         <<<<"2","0","2","3","-","1","-","5">>, FormatDate(2023, 1, 30)>>,
         <<<<"2","0","2","3","/","0","1","/","0","1">>, FormatDate(2023, 1, 30)>>,
         <<FormatDate(2023, 1, 1), <<"2","0","2","3","-","0","2","-","3","0">>>>}
  IN  {<<df, TestRange>> : df \in UsageTables}
      \cup {<<df, range>> : df \in {t \in UsageTables : Len(t.rows) <= 1},
                            range \in OtherRanges}

(***************************************************************************)
(* State: the arguments and the outcome of the call last made.             *)
(***************************************************************************)
VARIABLES
  pc,                  \* where the run is: "start", then the name of the step taken
  instance_class,      \* argument of convert_instance_class
  convert_result,      \* its outcome
  recommendations_df,  \* the caller's recommendations table
  utilization_df,      \* the caller's utilization table
  days,                \* the days argument (<<>>: omitted)
  coverage_result,     \* outcome of calculate_coverage_metrics
  start_date,          \* arguments of calculate_days
  end_date,
  days_result,         \* its outcome
  region_name,         \* argument of get_region_name_code_mapping
  region_result,       \* its outcome
  usage_df,            \* the table handed to process_instance_data
  process_result,      \* outcome of process_instance_data, with what it printed
  detailed_coverage,   \* arguments of create_coverage_analysis
  target_coverage,
  analysis_result,     \* its outcome
  cost_command_result, \* outcome of the command analyze_cost_coverage
  target_command_result, \* outcome of the command analyze_target_coverage
  cache,               \* the entries of the lru_cache, the least recently used first
  calls                \* the lookups made so far, each with its outcome

metricsVars ==
  <<instance_class, convert_result, recommendations_df, utilization_df, days,
    coverage_result>>

utilsVars == <<start_date, end_date, days_result, region_name, region_result>>

processVars == <<usage_df, process_result>>

analysisVars == <<detailed_coverage, target_coverage, analysis_result>>

commandVars == <<cost_command_result, target_command_result>>

cacheVars == <<cache, calls>>

vars == <<pc, metricsVars, utilsVars, processVars, analysisVars, commandVars, cacheVars>>

Init ==
  /\ pc = "start"
  /\ instance_class = PyNone
  /\ convert_result = NotCalled
  /\ recommendations_df = Table({}, <<>>)
  /\ utilization_df = Table({}, <<>>)
  /\ days = <<>>
  /\ coverage_result = NotCalled
  /\ start_date = <<>>
  /\ end_date = <<>>
  /\ days_result = NotCalled
  /\ region_name = <<>>
  /\ region_result = NotCalled
  /\ usage_df = Table({}, <<>>)
  /\ process_result = ProcessResult(NotCalled, <<>>, <<>>)
  /\ detailed_coverage = Table({}, <<>>)
  /\ target_coverage = Zero
  /\ analysis_result = NotCalled
  /\ cost_command_result = NotCalled
  /\ target_command_result = [outcome |-> NotCalled, warnings |-> <<>>]
  /\ cache = <<>>
  /\ calls = <<>>

\* one call convert_instance_class(x)
ConvertInstanceClass ==
  /\ pc = "start"
  /\ \E x \in InstanceClassInputs :
       /\ instance_class' = x
       /\ convert_result' = convert_instance_class(x)
  /\ pc' = "converted"
  /\ UNCHANGED <<recommendations_df, utilization_df, days, coverage_result>>
  /\ UNCHANGED <<utilsVars, processVars>>
  /\ UNCHANGED <<analysisVars, commandVars, cacheVars>>

\* the caller builds the two report tables and picks the days
LoadReports ==
  /\ pc = "start"
  /\ recommendations_df' \in RecommendationTables
  /\ utilization_df' \in UtilizationTables
  /\ days' \in DaysArguments
  /\ pc' = "loaded"
  /\ UNCHANGED <<instance_class, convert_result, coverage_result>>
  /\ UNCHANGED <<utilsVars, processVars>>
  /\ UNCHANGED <<analysisVars, commandVars, cacheVars>>

\* one call calculate_coverage_metrics(recommendations_df, utilization_df[, days])
CalculateCoverageMetrics ==
  /\ pc = "loaded"
  /\ LET call == calculate_coverage_metrics(recommendations_df, utilization_df, DaysOf(days))
     IN  /\ recommendations_df' = call.recommendations_df
         /\ utilization_df' = call.utilization_df
         /\ coverage_result' = call.outcome
  /\ pc' = "calculated"
  /\ UNCHANGED <<instance_class, convert_result, days>>
  /\ UNCHANGED <<utilsVars, processVars>>
  /\ UNCHANGED <<analysisVars, commandVars, cacheVars>>

\* one run of the command analyze_cost_coverage on the reports the two tables
\* are read of (a table of no column: the report is not given)
AnalyzeCostCoverage ==
  /\ pc = "loaded"
  /\ cost_command_result'
       \in analyze_cost_coverage(recommendations_df, utilization_df, DaysOf(days))
  /\ pc' = "cost_analysed"
  /\ UNCHANGED <<metricsVars, utilsVars, processVars, analysisVars, cacheVars>>
  /\ UNCHANGED target_command_result

Next ==
  \/ ConvertInstanceClass
  \/ LoadReports
  \/ CalculateCoverageMetrics
  \/ AnalyzeCostCoverage

Spec == Init /\ [][Next]_vars

\* one call calculate_days(s, e)
CalculateDays ==
  /\ pc = "start"
  /\ \E s \in DateInputs, e \in DateInputs :
       /\ start_date' = s
       /\ end_date' = e
       /\ days_result' = calculate_days(s, e)
  /\ pc' = "counted"
  /\ UNCHANGED <<metricsVars, processVars, region_name, region_result>>
  /\ UNCHANGED <<analysisVars, commandVars, cacheVars>>

\* one call get_region_name_code_mapping(n)
GetRegionNameCodeMapping ==
  /\ pc = "start"
  /\ \E n \in RegionNameInputs :
       /\ region_name' = n
       /\ region_result' = get_region_name_code_mapping(n)
  /\ pc' = "mapped"
  /\ UNCHANGED <<metricsVars, processVars, start_date, end_date, days_result>>
  /\ UNCHANGED <<analysisVars, commandVars, cacheVars>>

NextUtils ==
  \/ CalculateDays
  \/ GetRegionNameCodeMapping

\* the calls of the two utilities
SpecUtils == Init /\ [][NextUtils]_vars

\* the caller's table and dates, before the call
LoadUsage ==
  /\ pc = "start"
  /\ \E input \in ProcessInputs :
       /\ usage_df' = input[1]
       /\ start_date' = input[2][1]
       /\ end_date' = input[2][2]
  /\ pc' = "usage"
  /\ UNCHANGED <<metricsVars, process_result, days_result, region_name, region_result>>
  /\ UNCHANGED <<analysisVars, commandVars, cacheVars>>

\* one call process_instance_data(df, start_date, end_date)
ProcessInstanceData ==
  /\ pc = "usage"
  /\ process_result' = process_instance_data(usage_df, start_date, end_date)
  /\ pc' = "processed"
  /\ UNCHANGED <<metricsVars, utilsVars, usage_df>>
  /\ UNCHANGED <<analysisVars, commandVars, cacheVars>>

\* the caller groups the table process_instance_data returned, as the test
\* does, and makes one call create_coverage_analysis(df, detailed_coverage,
\* target_coverage); the groups are handed in any order
CreateCoverageAnalysis ==
  /\ pc = "processed"
  /\ process_result.outcome.raised = ""
  /\ process_result.outcome.value.rows # <<>>
  /\ LET df == process_result.outcome.value
         groups == {[k \in 1..3 |-> df.rows[i][GroupIndex[k]]] : i \in 1..Len(df.rows)}
     IN  \E keys \in [1..Cardinality(groups) -> groups], t \in {0, 80, 100} :
           /\ \A g \in groups : \E i \in DOMAIN keys : keys[i] = g
           /\ detailed_coverage' = DetailedCoverage(df, keys)
           /\ target_coverage' = RatOfInt(t)
           /\ analysis_result' =
                create_coverage_analysis(df, DetailedCoverage(df, keys), RatOfInt(t))
  /\ pc' = "analysed"
  /\ UNCHANGED <<metricsVars, utilsVars, processVars, commandVars, cacheVars>>

\* one run of the command analyze_target_coverage on the CSV file the table
\* is read of
AnalyzeTargetCoverage ==
  /\ pc = "usage"
  /\ target_command_result' \in analyze_target_coverage(usage_df, start_date, end_date)
  /\ pc' = "target_analysed"
  /\ UNCHANGED <<metricsVars, utilsVars, processVars, analysisVars, cacheVars>>
  /\ UNCHANGED cost_command_result

NextProcess ==
  \/ LoadUsage
  \/ ProcessInstanceData
  \/ CreateCoverageAnalysis
  \/ AnalyzeTargetCoverage

\* the calls of process_instance_data
SpecProcess == Init /\ [][NextProcess]_vars

\* one more call get_region_name_code_mapping(n) of the same process: names
\* of the table as written and in lower case, with EU for Europe, and a name
\* the table does not have
CachedLookup ==
  /\ pc = "start"
  /\ Len(calls) < MaxCalls
  /\ \E n \in {EU_ \o <<"(","L","o","n","d","o","n",")">>,
               LowerName(EU_ \o <<"(","L","o","n","d","o","n",")">>),
               USWestOregon, LowerName(USWestOregon), AtlantisCentral} :
       LET call == cached_lookup(cache, n)
       IN  /\ cache' = call.cache
           /\ calls' = Append(calls, [name |-> n, outcome |-> call.outcome])
  /\ UNCHANGED <<pc, metricsVars, utilsVars, processVars, analysisVars, commandVars>>

NextCache ==
  \/ CachedLookup

\* the calls of the region lookup through its cache
SpecCache == Init /\ [][NextCache]_vars

(***************************************************************************)
(* Properties of calculate_coverage_metrics.                               *)
(***************************************************************************)
ODCE == "On-Demand cost equivalent"

\* the call was made and returned a CoverageResult
Calculated == pc = "calculated" /\ coverage_result.raised = ""

\* sum of column col over the rows whose index is in I
RECURSIVE SumOver(_, _, _)
SumOver(rows, col, I) ==
  IF I = {} THEN Zero
  ELSE LET i == CHOOSE i \in I : TRUE
       IN  RatAdd(rows[i][col], SumOver(rows, col, I \ {i}))

RowsOf(df) == 1..Len(df.rows)

\* c = ri / (ri + od) * 100 when ri + od > 0, and 0.0 otherwise
IsCoverageOf(c, ri, od) ==
  IF RatGt0(RatAdd(ri, od))
  THEN RatMul(c, RatAdd(ri, od)) = RatMul(RatOfInt(100), ri)
  ELSE c = Zero

\* C1: a returned result has overall_ri_coverage = sum(utilization cost) /
\* (sum(utilization cost) + sum(recommendation cost)) * 100, the recommendation
\* cost being the on-demand cost equivalent computed for each recommendation
\* row, and 0.0 exactly when both sums are zero; no call ends in a division
\* fault and no result is the nan of 0/0.
C1_OverallCoverage ==
  /\ pc = "calculated" => coverage_result.raised # "ZeroDivisionError"
  /\ Calculated =>
       LET ri == SumOver(utilization_df.rows, ODCE, RowsOf(utilization_df))
           od == SumOver(recommendations_df.rows, ODCE, RowsOf(recommendations_df))
           c  == coverage_result.value.overall_ri_coverage
       IN  /\ c.d # 0
           /\ IF ri = Zero /\ od = Zero
              THEN c = Zero
              ELSE RatMul(c, RatAdd(ri, od)) = RatMul(RatOfInt(100), ri)

\* C1 witness: a result over tables whose two sums are both positive
C1_Witness ==
  /\ Calculated
  /\ RatGt0(coverage_result.value.overall_ri_cost)
  /\ RatGt0(coverage_result.value.overall_od_cost)
  /\ RatGt0(coverage_result.value.overall_ri_coverage)

\* C2: with zero rows in both tables (tables without columns included) the
\* call returns overall_ri_coverage = 0, overall_ri_cost = 0, overall_od_cost = 0
\* and six empty mappings; it does not raise.
C2_EmptyInputs ==
  (/\ pc = "calculated"
   /\ recommendations_df.rows = <<>>
   /\ utilization_df.rows = <<>>) =>
    /\ coverage_result.raised = ""
    /\ coverage_result.value.overall_ri_coverage = Zero
    /\ coverage_result.value.overall_ri_cost = Zero
    /\ coverage_result.value.overall_od_cost = Zero
    /\ DOMAIN coverage_result.value.ri_coverage_per_region = {}
    /\ DOMAIN coverage_result.value.ri_cost_per_region = {}
    /\ DOMAIN coverage_result.value.od_cost_per_region = {}
    /\ DOMAIN coverage_result.value.ri_coverage_per_database_engine = {}
    /\ DOMAIN coverage_result.value.ri_cost_per_database_engine = {}
    /\ DOMAIN coverage_result.value.od_cost_per_database_engine = {}

\* the three mappings cov, ri, od are keyed by the values of column keycol in
\* either table, hold the cost sums of each key and the coverage of each key
MappingsAgree(cov, ri, od, keycol) ==
  LET keys == {utilization_df.rows[i][keycol] : i \in RowsOf(utilization_df)}
              \cup {recommendations_df.rows[i][keycol] : i \in RowsOf(recommendations_df)}
  IN  /\ DOMAIN cov = keys
      /\ DOMAIN ri = keys
      /\ DOMAIN od = keys
      /\ \A k \in keys :
           /\ ri[k] = SumOver(utilization_df.rows, ODCE,
                              {i \in RowsOf(utilization_df) :
                                 utilization_df.rows[i][keycol] = k})
           /\ od[k] = SumOver(recommendations_df.rows, ODCE,
                              {i \in RowsOf(recommendations_df) :
                                 recommendations_df.rows[i][keycol] = k})
           /\ IsCoverageOf(cov[k], ri[k], od[k])

\* C3: in every result the three region mappings have the same keys, the
\* union of the region codes of the utilization rows and of the recommendation
\* rows, with cost 0 on the side a key is absent from, and coverage =
\* ri/(ri+od)*100 when ri+od > 0 and 0.0 otherwise; likewise the three engine
\* mappings, keyed by database engine.
C3_PerKeyMappings ==
  Calculated =>
    /\ MappingsAgree(coverage_result.value.ri_coverage_per_region,
                     coverage_result.value.ri_cost_per_region,
                     coverage_result.value.od_cost_per_region, "RegionCode")
    /\ MappingsAgree(coverage_result.value.ri_coverage_per_database_engine,
                     coverage_result.value.ri_cost_per_database_engine,
                     coverage_result.value.od_cost_per_database_engine, "Database engine")

\* C3 witness: a result with a region only the recommendations have, a region
\* only the utilization has, and a region whose two costs are both 0
C3_Witness ==
  /\ Calculated
  /\ \E k \in DOMAIN coverage_result.value.ri_coverage_per_region :
       /\ \A i \in RowsOf(utilization_df) : utilization_df.rows[i]["RegionCode"] # k
       /\ RatGt0(coverage_result.value.od_cost_per_region[k])
  /\ \E k \in DOMAIN coverage_result.value.ri_coverage_per_region :
       /\ \A i \in RowsOf(recommendations_df) : recommendations_df.rows[i]["RegionCode"] # k
       /\ RatGt0(coverage_result.value.ri_cost_per_region[k])
  /\ \E k \in DOMAIN coverage_result.value.ri_coverage_per_region :
       /\ coverage_result.value.ri_cost_per_region[k] = Zero
       /\ coverage_result.value.od_cost_per_region[k] = Zero
       /\ coverage_result.value.ri_coverage_per_region[k] = Zero

\* the days the call aggregates over: the argument, 30 when it is omitted
DaysInPeriod == IF days = <<>> THEN 30 ELSE days[1]

\* the call has written the cost column of the recommendation rows
CostColumnWritten ==
  /\ pc = "calculated"
  /\ recommendations_df.rows # <<>>
  /\ ODCE \in recommendations_df.cols

\* x = (upfront / (12 * term) + recurring + savings) * 12 / 365 * d, with
\* whole-dollar components, as an equation between integers
IsCostEquivalent(x, row, d) ==
  LET term == IF row["Term"] = <<"1">> THEN 1 ELSE 3
  IN  x.n * 365 * term =
        (row["Upfront cost"].n
           + 12 * term * (row["Recurring monthly cost"].n + row["Estimated savings"].n))
        * d * x.d

\* C4: every recommendation row's on-demand cost equivalent is (upfront_cost /
\* (12 * term_years) + recurring_monthly_cost + estimated_savings) * 12 / 365 *
\* days, days being the argument and 30 when it is omitted.
C4_CostEquivalent ==
  CostColumnWritten =>
    \A i \in RowsOf(recommendations_df) :
      IsCostEquivalent(recommendations_df.rows[i][ODCE], recommendations_df.rows[i],
                       DaysInPeriod)

\* C4 witness: rows of both terms costed over 7 days
C4_Witness ==
  /\ CostColumnWritten
  /\ days = <<7>>
  /\ \E i \in RowsOf(recommendations_df) :
       /\ recommendations_df.rows[i]["Term"] = <<"3">>
       /\ RatGt0(recommendations_df.rows[i][ODCE])
  /\ \E i \in RowsOf(recommendations_df) :
       /\ recommendations_df.rows[i]["Term"] = <<"1">>
       /\ RatGt0(recommendations_df.rows[i][ODCE])

\* the row of the end-to-end example: Term 3, Upfront 5000, Recurring 400,
\* Savings 300
IsExampleRow(row) ==
  /\ row["Term"] = <<"3">>
  /\ row["Upfront cost"] = RatOfInt(5000)
  /\ row["Recurring monthly cost"] = RatOfInt(400)
  /\ row["Estimated savings"] = RatOfInt(300)

\* x, rounded to cents, is the amount of the given number of cents
RoundsToCents(x, cents) ==
  /\ (2 * cents - 1) * x.d <= 200 * x.n
  /\ 200 * x.n < (2 * cents + 1) * x.d

\* C5 as stated: the example row over 30 days costs approximately 840.27.
C5_Original ==
  (CostColumnWritten /\ DaysInPeriod = 30) =>
    \A i \in RowsOf(recommendations_df) :
      IsExampleRow(recommendations_df.rows[i]) =>
        RoundsToCents(recommendations_df.rows[i][ODCE], 84027)

\* C5, amended: the example row over 30 days gets the on-demand cost
\* equivalent (5000/(12*3) + 400 + 300) * 12/365*30 = 302000/365, which is
\* approximately 827.40.
C5_ExampleRow ==
  (CostColumnWritten /\ DaysInPeriod = 30) =>
    \A i \in RowsOf(recommendations_df) :
      IsExampleRow(recommendations_df.rows[i]) =>
        /\ recommendations_df.rows[i][ODCE] = Rat(302000, 365)
        /\ RoundsToCents(recommendations_df.rows[i][ODCE], 82740)

\* C5 witness: the example row costed with days = 30 passed by the caller
C5_Witness ==
  /\ CostColumnWritten
  /\ days = <<30>>
  /\ \E i \in RowsOf(recommendations_df) :
       /\ IsExampleRow(recommendations_df.rows[i])
       /\ recommendations_df.rows[i]["Region"] = USWestOregon
       /\ recommendations_df.rows[i]["RegionCode"] = "us-west-2"

(***************************************************************************)
(* Properties of convert_instance_class.                                   *)
(***************************************************************************)
Converted == pc = "converted"

InstanceClassError == Raised("InstanceClassError")

\* the factor the size table gives a named size
NamedFactor(size) ==
  CASE size = large -> Num(RatOfInt(1))
    [] size = xlarge -> Num(RatOfInt(2))
    [] size = medium -> Num(Rat(1, 2))
    [] size = small -> Num(Rat(1, 4))
    [] size = micro -> Num(Rat(1, 8))

\* C6: for a well-formed class db.<family>.<size> the call returns the base
\* class db.<family>.large of the same family, and the factor large = 1.0,
\* xlarge = 2.0, medium = 0.5, small = 0.25, micro = 0.125, and N*2.0 for a
\* size <N>xlarge.
C6_BaseAndFactor ==
  Converted =>
    \A f \in Families :
      /\ \A z \in NamedSizes :
           instance_class = PyStr(Class(db_dot, f, z)) =>
             convert_result = Returned(<<Class(db_dot, f, large), NamedFactor(z)>>)
      /\ \A n \in 0..MaxMultiplier :
           instance_class = PyStr(Class(db_dot, f, Dec(n) \o xlarge)) =>
             convert_result =
               Returned(<<Class(db_dot, f, large), Num(RatOfInt(2 * n))>>)

\* C6 witness: db.r5.8xlarge converted to (db.r5.large, 16.0)
C6_Witness ==
  /\ Converted
  /\ instance_class = PyStr(<<"d","b",".","r","5",".","8","x","l","a","r","g","e">>)
  /\ convert_result =
       Returned(<<(<<"d","b",".","r","5",".","l","a","r","g","e">>), Num(RatOfInt(16))>>)

\* the classes db.m5.<size> with the size spelled in any mix of cases
CaseVariantInputs ==
  {PyStr(Class(db_dot, <<"m","5">>, v)) :
     v \in UNION {CaseVariants(z) : z \in NamedSizes \cup {<<"2">> \o xlarge}}}

\* C7: the size token is matched case-insensitively: a class whose size is
\* spelled in any mix of upper and lower case gives the same (base class,
\* factor) as the class with the lower-case size.
C7_CaseInsensitive ==
  (Converted /\ instance_class \in CaseVariantInputs) =>
    convert_result = convert_instance_class(PyStr(Lower(instance_class.val)))

\* the text of a string argument, without the white space around it
Text == Strip(instance_class.val)

\* the argument is a class db.<family>.<size><suffix> with the size among sizes
\* and the suffix among suffixes
IsClassOf(sizes, suffixes) ==
  \E f \in Families, z \in sizes, x \in suffixes :
    instance_class = PyStr(Class(db_dot, f, z) \o x)

ExtraSuffixes ==
  {x \in Suffixes : x # <<>> /\ ~IsSpace(x[1]) /\ ~IsLowerAlnum(x[1])}

\* C9: only the exact shape db.<family>.<size> is accepted: a class followed
\* by further characters (a fourth segment, a suffix that is no lower-case
\* letter or digit) is rejected with InstanceClassError.
C9_ExactShape ==
  (Converted /\ IsClassOf(NamedSizes \cup MultipleSizes, ExtraSuffixes)) =>
    convert_result = InstanceClassError

\* size is <N>xlarge for a decimal number N
IsMultipleSize(size) ==
  \E k \in 1..Len(size) : AllDigits(Take(size, k)) /\ From(size, k + 1) = xlarge

\* C10: a size token that is neither large, xlarge, medium, small, micro nor a
\* number followed by exactly xlarge raises InstanceClassError; a token that
\* merely contains xlarge yields no factor.
C10_UnknownSizeRejected ==
  Converted =>
    \A f \in Families, z \in UnknownSizes \cup XlargeLikeSizes :
      (instance_class = PyStr(Class(db_dot, f, z)) /\ ~IsMultipleSize(z)) =>
        convert_result = InstanceClassError

(***************************************************************************)
(* calculate_days                                                          *)
(***************************************************************************)
\* a text of the shape DDDD-DD-DD
IsExactFormat(s) ==
  /\ Len(s) = 10
  /\ s[5] = "-" /\ s[8] = "-"
  /\ \A i \in {1, 2, 3, 4, 6, 7, 9, 10} : IsDigit(s[i])

YearOf(s) == DigitsVal(SubSeq(s, 1, 4))
MonthOf(s) == DigitsVal(SubSeq(s, 6, 7))
DayOf(s) == DigitsVal(SubSeq(s, 9, 10))

MonthLengths == <<31, 28, 31, 30, 31, 30, 31, 31, 30, 31, 30, 31>>

\* a day of the Gregorian calendar, written YYYY-MM-DD
IsValidDate(s) ==
  /\ IsExactFormat(s)
  /\ YearOf(s) >= 1
  /\ MonthOf(s) \in 1..12
  /\ DayOf(s) >= 1
  /\ DayOf(s) <= MonthLengths[MonthOf(s)]
                 + (IF MonthOf(s) = 2 /\ (YearOf(s) % 4 = 0)
                       /\ (YearOf(s) % 100 # 0 \/ YearOf(s) % 400 = 0) THEN 1 ELSE 0)

\* the Julian day number of a date
JulianDay(s) ==
  LET a  == (14 - MonthOf(s)) \div 12
      yy == YearOf(s) + 4800 - a
      mm == MonthOf(s) + 12 * a - 3
  IN  DayOf(s) + ((153 * mm + 2) \div 5) + 365 * yy + (yy \div 4) - (yy \div 100)
        + (yy \div 400) - 32045

Jan15_2023 == <<"2","0","2","3","-","0","1","-","1","5">>
Feb15_2023 == <<"2","0","2","3","-","0","2","-","1","5">>
Dec15_2022 == <<"2","0","2","2","-","1","2","-","1","5">>

Counted == pc = "counted"

\* C11: for every pair of valid YYYY-MM-DD dates calculate_days returns the
\* number of days from start to end plus one; a date with itself gives 1, and
\* 2023-01-15 to 2023-02-15 and 2022-12-15 to 2023-01-15 both give 32.
C11_InclusiveDays ==
  (Counted /\ IsValidDate(start_date) /\ IsValidDate(end_date)) =>
    /\ days_result.raised = ""
    /\ days_result.value = JulianDay(end_date) - JulianDay(start_date) + 1
    /\ (start_date = end_date => days_result.value = 1)
    /\ (start_date = Jan15_2023 /\ end_date = Feb15_2023 => days_result.value = 32)
    /\ (start_date = Dec15_2022 /\ end_date = Jan15_2023 => days_result.value = 32)

C11_Witness ==
  /\ Counted
  /\ start_date = Dec15_2022
  /\ end_date = Jan15_2023
  /\ days_result = Returned(32)

\* C12: calculate_days raises DateFormatError whenever either argument is not
\* in the exact format YYYY-MM-DD.
C12_ExactFormat ==
  (Counted /\ (~IsExactFormat(start_date) \/ ~IsExactFormat(end_date))) =>
    days_result.raised = "DateFormatError"

(***************************************************************************)
(* get_region_name_code_mapping                                            *)
(***************************************************************************)
Mapped == pc = "mapped"

SameOutcome(a, b) == a.raised = b.raised /\ (a.raised = "" => a.value = b.value)

StartsWith(s, prefix) == Len(s) >= Len(prefix) /\ Take(s, Len(prefix)) = prefix

EULondon == EU_ \o <<"(","L","o","n","d","o","n",")">>

\* C13: for every suffix X the lookup of "EU " + X has the outcome of the
\* lookup of "Europe " + X; "EU (Ireland)" and "Europe (Ireland)" both give
\* eu-west-1.
C13_EUAsEurope ==
  Mapped =>
    /\ StartsWith(region_name, EU_) =>
         SameOutcome(region_result,
                     get_region_name_code_mapping(Europe_ \o From(region_name, 4)))
    /\ region_name \in {EUIreland, EuropeIreland} => region_result = Returned("eu-west-1")

C13_Witness ==
  /\ Mapped
  /\ region_name = EULondon
  /\ region_result = Returned("eu-west-2")

\* C14: every upper-case and lower-case variant of a name that maps to a code
\* (a name of the table, or one accepted through the rewrite of "EU ") maps to
\* the same code.
C14_CaseInsensitive ==
  (Mapped /\ region_name \in TableNames \cup EUNames) =>
    /\ region_result.raised = ""
    /\ SameOutcome(get_region_name_code_mapping(LowerName(region_name)), region_result)
    /\ SameOutcome(get_region_name_code_mapping(UpperName(region_name)), region_result)

\* the name, after the rewrite, is a name of the table up to case
MatchesTable(name) ==
  \E t \in TableNames : LowerName(t) = LowerName(RewriteEU(name))

\* C15: the lookup raises RegionMappingError and returns no code for every
\* name that after the rewrite of "EU " matches no name of the table, exactly
\* or case-insensitively.
C15_UnknownRaises ==
  (Mapped /\ ~MatchesTable(region_name)) => region_result = Raised("RegionMappingError")

C15_Witness ==
  /\ Mapped
  /\ region_name = EU_ \o <<"(","A","t","l","a","n","t","i","s",")">>
  /\ region_result = Raised("RegionMappingError")

(***************************************************************************)
(* process_instance_data                                                   *)
(***************************************************************************)
Processed == pc = "processed"

ProcessReturned == Processed /\ process_result.outcome.raised = ""

\* the rows of the table returned
OutRows == process_result.outcome.value.rows

One == Num(RatOfInt(1))

\* q is the float quotient x / k
IsQuotient(q, x, k) ==
  IF k # 0 THEN q.kind = "num" /\ RatMul(q.val, RatOfInt(k)) = x
  ELSE q.kind = (IF x.n > 0 THEN "inf" ELSE IF x.n < 0 THEN "-inf" ELSE "nan")

\* C16: every output row has the same Total days, the inclusive day count of
\* the range, and its estimated instance amount is its running hours divided
\* by 24 * total days; 720 hours over 30 days give exactly 1.0.
C16_DaysAndEstimate ==
  ProcessReturned =>
    /\ Len(OutRows) = Len(usage_df.rows)
    /\ \A i \in 1..Len(OutRows) :
         LET hours == usage_df.rows[i]["Total running hours"]
             total_days == OutRows[i]["Total days"]
             est == OutRows[i]["(est.) Instance amount"]
         IN  /\ (IsValidDate(start_date) /\ IsValidDate(end_date)) =>
                  total_days = JulianDay(end_date) - JulianDay(start_date) + 1
             /\ total_days = OutRows[1]["Total days"]
             /\ IsQuotient(est, hours, 24 * total_days)
             /\ (hours = RatOfInt(720) /\ total_days = 30) => est = One

C16_Witness ==
  /\ ProcessReturned
  /\ Len(OutRows) = 2
  /\ \A i \in 1..2 :
       /\ OutRows[i]["Total days"] = 30
       /\ usage_df.rows[i]["Total running hours"] = RatOfInt(720)
       /\ OutRows[i]["(est.) Instance amount"] = One

Twice(x) == FloatMul(x, Num(RatOfInt(2)))

\* C17: every row's Total amount is its estimated amount times its size
\* factor, doubled exactly when its Deployment option is Multi-AZ; a Multi-AZ
\* row has twice the Total amount of a row that is not, with the same
\* estimated amount and factor.
C17_TotalAmount ==
  ProcessReturned =>
    /\ \A i \in 1..Len(OutRows) :
         LET product == FloatMul(OutRows[i]["(est.) Instance amount"],
                                 OutRows[i]["Instance size factor"])
         IN  OutRows[i]["Total amount"] =
               (IF OutRows[i]["Deployment option"] = MultiAZ THEN Twice(product) ELSE product)
    /\ \A i, j \in 1..Len(OutRows) :
         ( /\ OutRows[i]["Deployment option"] = MultiAZ
           /\ OutRows[j]["Deployment option"] # MultiAZ
           /\ OutRows[i]["(est.) Instance amount"] = OutRows[j]["(est.) Instance amount"]
           /\ OutRows[i]["Instance size factor"] = OutRows[j]["Instance size factor"] )
         => OutRows[i]["Total amount"] = Twice(OutRows[j]["Total amount"])

C17_Witness ==
  /\ ProcessReturned
  /\ Len(OutRows) = 2
  /\ OutRows[1]["Deployment option"] = MultiAZ
  /\ OutRows[2]["Deployment option"] = SingleAZ
  /\ OutRows[1]["(est.) Instance amount"] = One
  /\ OutRows[2]["(est.) Instance amount"] = One
  /\ OutRows[1]["Instance size factor"] = OutRows[2]["Instance size factor"]
  /\ OutRows[1]["Total amount"] = Num(RatOfInt(2))
  /\ OutRows[2]["Total amount"] = One

\* the engine name has the word in it, whatever the case of its letters
EngineHas(engine, word) == Contains(Lower(engine), Lower(word))

IsEligible(engine) ==
  \/ EngineHas(engine, <<"a","u","r","o","r","a">>)
  \/ EngineHas(engine, <<"m","a","r","i","a","d","b">>)
  \/ EngineHas(engine, <<"m","y","s","q","l">>)
  \/ EngineHas(engine, <<"p","o","s","t","g","r","e","s","q","l">>)
  \/ (EngineHas(engine, <<"o","r","a","c","l","e">>) /\ EngineHas(engine, <<"b","y","o","l">>))

\* the instance classes of the rows of the given engines' kind
ClassesOf(rows, eligible) ==
  {rows[i]["Instance class"] :
     i \in {k \in 1..Len(rows) : IsEligible(rows[k]["Database engine"]) = eligible}}

\* C18: convert_instance_class is applied to a row only if its engine is
\* eligible; a row of any other engine keeps its instance class as base size
\* with factor 1.0, whatever the class is.
C18_EligibleEngines ==
  Processed =>
    /\ \A k \in 1..Len(process_result.invocations) :
         process_result.invocations[k] \in ClassesOf(usage_df.rows, TRUE)
    /\ Len(process_result.invocations)
         <= Cardinality({i \in 1..Len(usage_df.rows) :
                           IsEligible(usage_df.rows[i]["Database engine"])})
    /\ ProcessReturned =>
         \A i \in 1..Len(OutRows) :
           ~IsEligible(usage_df.rows[i]["Database engine"]) =>
             /\ OutRows[i]["Base instance size"] = usage_df.rows[i]["Instance class"]
             /\ OutRows[i]["Instance size factor"] = One

C18_Witness ==
  /\ ProcessReturned
  /\ Len(OutRows) = 2
  /\ OutRows[1]["Database engine"] = OracleEE
  /\ OutRows[1]["Base instance size"] = Class(db_dot, <<"m","5">>, <<"4">> \o xlarge)
  /\ OutRows[1]["Instance size factor"] = One
  /\ OutRows[2]["Database engine"] = OracleEEBYOL
  /\ OutRows[2]["Base instance size"] = Class(db_dot, <<"m","5">>, large)
  /\ OutRows[2]["Instance size factor"] = Num(RatOfInt(8))
  /\ process_result.invocations = <<Class(db_dot, <<"m","5">>, <<"4">> \o xlarge)>>

\* the class string has micro, small or medium in it, whatever the case
NamesSmallSize(class) ==
  \E w \in {<<"m","i","c","r","o">>, <<"s","m","a","l","l">>, <<"m","e","d","i","u","m">>} :
    Contains(Lower(class), w)

WarnedClasses == {process_result.warnings[k][2] : k \in 1..Len(process_result.warnings)}

InvokedClasses == {process_result.invocations[k] : k \in 1..Len(process_result.invocations)}

DecompositionFails(row) ==
  /\ IsEligible(row["Database engine"])
  /\ ~NamesSmallSize(row["Instance class"])
  /\ convert_instance_class(PyStr(row["Instance class"])).raised # ""

Remove(seq, i) == SubSeq(seq, 1, i - 1) \o SubSeq(seq, i + 1, Len(seq))

\* the dates are accepted and every region is one of the table
NothingElseRaises ==
  /\ calculate_days(start_date, end_date).raised = ""
  /\ \A i \in 1..Len(usage_df.rows) : MatchesTable(usage_df.rows[i]["Region"])

\* C20: when convert_instance_class fails for a row the call is not aborted:
\* the row gets its instance class as base size and factor 1.0, a warning is
\* printed, and every other row gets the values it gets without that row in
\* the table.
C20_FailureTolerated ==
  (Processed /\ process_result.outcome.raised # "DateFormatError") =>
    \A i \in 1..Len(usage_df.rows) :
      DecompositionFails(usage_df.rows[i]) =>
        /\ process_result.outcome.raised \in {"", "RegionMappingError"}
        /\ NothingElseRaises => ProcessReturned
        /\ usage_df.rows[i]["Instance class"] \in WarnedClasses
        /\ ProcessReturned =>
             /\ OutRows[i]["Base instance size"] = usage_df.rows[i]["Instance class"]
             /\ OutRows[i]["Instance size factor"] = One
             /\ Remove(OutRows, i)
                  = process_instance_data(Table(usage_df.cols, Remove(usage_df.rows, i)),
                                          start_date, end_date).outcome.value.rows

C20_Witness ==
  /\ ProcessReturned
  /\ Len(OutRows) = 2
  /\ DecompositionFails(usage_df.rows[1])
  /\ OutRows[1]["Base instance size"] = Class(db_dot, <<"m","5">>, <<"u","n","k","n","o","w","n">>)
  /\ OutRows[1]["Instance size factor"] = One
  /\ OutRows[2]["Base instance size"] = Class(db_dot, <<"r","5">>, large)
  /\ OutRows[2]["Instance size factor"] = Num(RatOfInt(4))
  /\ Len(process_result.warnings) = 1

\* C21: the call is aborted and returns no row when a date of the range is
\* not a date written YYYY-MM-DD (DateFormatError, before any row is
\* processed) and when a region of some row is not one of the table
\* (RegionMappingError).
C21_Aborts ==
  Processed =>
    /\ (~IsValidDate(start_date) \/ ~IsValidDate(end_date)) =>
         /\ process_result.outcome = Raised("DateFormatError")
         /\ process_result.warnings = <<>>
         /\ process_result.invocations = <<>>
    /\ ( /\ IsValidDate(start_date) /\ IsValidDate(end_date)
         /\ \E i \in 1..Len(usage_df.rows) : ~MatchesTable(usage_df.rows[i]["Region"]) ) =>
         process_result.outcome = Raised("RegionMappingError")

\* the part of C21 that stands: a call that calculate_days or the lookup of a
\* region fails is aborted with that error
C21_Witness ==
  /\ Processed
  /\ Len(usage_df.rows) = 2
  /\ MatchesTable(usage_df.rows[1]["Region"])
  /\ ~MatchesTable(usage_df.rows[2]["Region"])
  /\ process_result.outcome = Raised("RegionMappingError")

\* x <= y of floats; a comparison with nan is false
FloatLe(x, y) ==
  IF x.kind = "nan" \/ y.kind = "nan" THEN FALSE
  ELSE IF x.kind = "-inf" \/ y.kind = "inf" THEN TRUE
  ELSE IF x.kind = "inf" \/ y.kind = "-inf" THEN FALSE
  ELSE x.val.n * y.val.d <= y.val.n * x.val.d

\* C30: for every row with running hours >= 0 and an average coverage between
\* 0 and 1 the RI covered amount is at most the Total amount, for rows that
\* are Multi-AZ and rows that are not, and for every size factor assigned.
C30_CoveredWithinTotal ==
  ProcessReturned =>
    \A i \in 1..Len(OutRows) :
      ( /\ OutRows[i]["Total running hours"].n >= 0
        /\ OutRows[i]["Average coverage"].n >= 0
        /\ OutRows[i]["Average coverage"].n <= OutRows[i]["Average coverage"].d ) =>
        FloatLe(OutRows[i]["RI covered amount"], OutRows[i]["Total amount"])

(***************************************************************************)
(* calculate_coverage_metrics: the caller's tables and the cost mappings   *)
(***************************************************************************)
\* C28: calculate_coverage_metrics leaves the caller's recommendation and
\* utilization tables as they were before the call, columns and values, as
\* process_instance_data leaves its table.
C28_InputsUnchanged ==
  [][ /\ CalculateCoverageMetrics => UNCHANGED <<recommendations_df, utilization_df>>
      /\ ProcessInstanceData => UNCHANGED usage_df ]_vars

\* the sum of the values of a mapping
RECURSIVE SumOfMapping(_)
SumOfMapping(f) ==
  IF DOMAIN f = {} THEN Zero
  ELSE LET k == CHOOSE k \in DOMAIN f : TRUE
       IN  RatAdd(f[k], SumOfMapping([j \in (DOMAIN f) \ {k} |-> f[j]]))

\* C29: in every result the costs per key add up to the totals: the sum of
\* ri_cost_per_region is overall_ri_cost, the sum of od_cost_per_region is
\* overall_od_cost, and likewise for the two mappings per database engine.
C29_CostsPartitionTotals ==
  Calculated =>
    LET result == coverage_result.value
    IN  /\ SumOfMapping(result.ri_cost_per_region) = result.overall_ri_cost
        /\ SumOfMapping(result.od_cost_per_region) = result.overall_od_cost
        /\ SumOfMapping(result.ri_cost_per_database_engine) = result.overall_ri_cost
        /\ SumOfMapping(result.od_cost_per_database_engine) = result.overall_od_cost

\* C29 witness: a result with two regions and two engines, each with a cost
\* on one side only
C29_Witness ==
  /\ Calculated
  /\ Cardinality(DOMAIN coverage_result.value.ri_cost_per_region) = 2
  /\ Cardinality(DOMAIN coverage_result.value.ri_cost_per_database_engine) = 2
  /\ \E e \in DOMAIN coverage_result.value.ri_cost_per_database_engine :
       /\ RatGt0(coverage_result.value.ri_cost_per_database_engine[e])
       /\ coverage_result.value.od_cost_per_database_engine[e] = Zero
  /\ \E r \in DOMAIN coverage_result.value.od_cost_per_region :
       /\ RatGt0(coverage_result.value.od_cost_per_region[r])
       /\ coverage_result.value.ri_cost_per_region[r] = Zero

(***************************************************************************)
(* Properties of create_coverage_analysis.                                 *)
(***************************************************************************)
Analysed == pc = "analysed" /\ analysis_result.raised = ""

\* p = t / 100 * c, of a rational t and a float c
IsPercentOf(p, t, c) ==
  CASE c.kind = "num" ->
         p.kind = "num" /\ p.val.n * 100 * t.d * c.val.d = t.n * c.val.n * p.val.d
    [] c.kind = "nan" -> p.kind = "nan"
    [] OTHER -> p.kind = (IF t.n = 0 THEN "nan" ELSE IF t.n > 0 THEN c.kind
                          ELSE IF c.kind = "inf" THEN "-inf" ELSE "inf")

\* d = a - b, of floats
IsDifference(d, a, b) ==
  CASE a.kind = "nan" \/ b.kind = "nan" -> d.kind = "nan"
    [] a.kind = "num" /\ b.kind = "num" ->
         /\ d.kind = "num"
         /\ d.val.n * a.val.d * b.val.d = (a.val.n * b.val.d - b.val.n * a.val.d) * d.val.d
    [] a.kind = "num" -> d.kind = (IF b.kind = "inf" THEN "-inf" ELSE "inf")
    [] b.kind = "num" -> d.kind = a.kind
    [] OTHER -> d.kind = (IF a.kind = b.kind THEN "nan" ELSE a.kind)

\* the groups of the table process_instance_data returned
GroupsOf(rows) ==
  {<<rows[i]["region_code"], rows[i]["Database engine"], rows[i]["Base instance size"]>> :
     i \in 1..Len(rows)}

\* C22: create_coverage_analysis returns exactly one row for each (region,
\* engine, base size) group of the detailed coverage, a group of total zero
\* included; in each row the Target covered amount is target_coverage / 100
\* times the current total and the Required change is the target covered
\* amount less the current covered amount.
C22_OneRowPerGroup ==
  Analysed =>
    LET out == analysis_result.value.rows
        KeyOf(row, region) == <<row[region], row["Database engine"], row["Base instance size"]>>
    IN  /\ Len(out) = Len(detailed_coverage.rows)
        /\ Len(out) = Cardinality(GroupsOf(process_result.outcome.value.rows))
        /\ {KeyOf(out[i], "Region") : i \in 1..Len(out)}
             = GroupsOf(process_result.outcome.value.rows)
        /\ \A i \in 1..Len(out) :
             /\ KeyOf(out[i], "Region") = KeyOf(detailed_coverage.rows[i], "region_code")
             /\ out[i]["Current total amount"] = detailed_coverage.rows[i]["Total amount"]
             /\ out[i]["Current covered amount"] = detailed_coverage.rows[i]["RI covered amount"]
             /\ IsPercentOf(out[i]["Target covered amount"], target_coverage,
                            out[i]["Current total amount"])
             /\ IsDifference(out[i]["Required change"], out[i]["Target covered amount"],
                             out[i]["Current covered amount"])

\* two groups at a target of 80, one of them of total zero and one that needs
\* more covered amount
C22_Witness ==
  /\ Analysed
  /\ target_coverage = RatOfInt(80)
  /\ Len(analysis_result.value.rows) = 2
  /\ \E i, j \in 1..2 :
       /\ analysis_result.value.rows[i]["Current total amount"] = Num(Zero)
       /\ analysis_result.value.rows[j]["Required change"].kind = "num"
       /\ analysis_result.value.rows[j]["Required change"].val.n > 0

(***************************************************************************)
(* Properties of the command analyze_cost_coverage.                        *)
(***************************************************************************)
CostAnalysed == pc = "cost_analysed"

\* the report is not given to the command
NotGiven(report) == report.cols = {}

\* every region of the report is a region of the table
KnownRegions(report) ==
  \A i \in 1..Len(report.rows) : MatchesTable(report.rows[i]["Region"])

\* C23: without a recommendations report the command reports an overall RI
\* coverage of 100%, and without a utilization report it reports 0%.
C23_AbsentReports ==
  CostAnalysed =>
    /\ (NotGiven(recommendations_df) /\ ~NotGiven(utilization_df)
          /\ KnownRegions(utilization_df)) =>
         /\ cost_command_result.raised = ""
         /\ cost_command_result.value.overall_ri_coverage = RatOfInt(100)
    /\ (NotGiven(utilization_df) /\ ~NotGiven(recommendations_df)
          /\ KnownRegions(recommendations_df)) =>
         /\ cost_command_result.raised = ""
         /\ cost_command_result.value.overall_ri_coverage = Zero

\* no recommendations report and a utilization report with a cost: 100%
C23_Witness ==
  /\ CostAnalysed
  /\ NotGiven(recommendations_df)
  /\ Len(utilization_df.rows) = 2
  /\ cost_command_result.raised = ""
  /\ cost_command_result.value.overall_ri_cost.n > 0
  /\ cost_command_result.value.overall_ri_coverage = RatOfInt(100)

\* calculate_coverage_metrics on the tables the command works on
MetricsOfReports ==
  calculate_coverage_metrics(
    LoadedReport(recommendations_df, RecommendationColumns \ {"Term"}),
    LoadedReport(utilization_df, UtilizationColumns),
    DaysInPeriod).outcome

\* C27: the command analyze_cost_coverage returns the CoverageResult that
\* calculate_coverage_metrics returns for the same two tables and the same
\* days, also when both cost sums are zero.
C27_SameAsMetrics ==
  CostAnalysed => SameOutcome(cost_command_result, MetricsOfReports)

\* both reports with a cost, over the 30 days of the default: the two agree
C27_Witness ==
  /\ CostAnalysed
  /\ days = <<>>
  /\ cost_command_result.raised = ""
  /\ cost_command_result.value.overall_ri_cost.n > 0
  /\ cost_command_result.value.overall_od_cost.n > 0
  /\ cost_command_result = MetricsOfReports

(***************************************************************************)
(* Properties of the command analyze_target_coverage.                      *)
(***************************************************************************)
TargetAnalysed == pc = "target_analysed"

\* the rows of the CSV file whose instance class convert_instance_class rejects
FailingRows == {i \in 1..Len(usage_df.rows) : DecompositionFails(usage_df.rows[i])}

\* C24: in the command analyze_target_coverage a row whose instance class
\* cannot be decomposed produces a warning and does not end the command by
\* an instance-class error; the row keeps its class with the factor 1.0.
C24_CommandTolerates ==
  (TargetAnalysed /\ FailingRows # {}) =>
    /\ target_command_result.outcome.raised # "InstanceClassError"
    /\ target_command_result.outcome.raised = "" =>
         \A i \in FailingRows :
           /\ \E k \in DOMAIN target_command_result.warnings :
                target_command_result.warnings[k][2] = usage_df.rows[i]["Instance class"]
           /\ target_command_result.outcome.value.rows[i]["Base instance size"]
                = usage_df.rows[i]["Instance class"]
           /\ target_command_result.outcome.value.rows[i]["Instance size factor"] = One

\* a file of two rows of known regions over a range of 30 days, the second of
\* a class that cannot be decomposed
C24_Witness ==
  /\ TargetAnalysed
  /\ IsValidDate(start_date) /\ IsValidDate(end_date)
  /\ Len(usage_df.rows) = 2
  /\ FailingRows = {2}
  /\ \A i \in 1..2 : MatchesTable(usage_df.rows[i]["Region"])

\* process_instance_data on the table and the range of the command
FunctionOutcome == process_instance_data(usage_df, start_date, end_date).outcome

\* C26: where neither raises, the command analyze_target_coverage computes
\* for every row the Base instance size, the Instance size factor, the Total
\* amount and the RI covered amount that process_instance_data computes.
C26_SameAsProcess ==
  (TargetAnalysed /\ target_command_result.outcome.raised = ""
     /\ FunctionOutcome.raised = "") =>
    \A i \in 1..Len(usage_df.rows) :
      \A c \in {"Base instance size", "Instance size factor", "Total amount",
                "RI covered amount"} :
        target_command_result.outcome.value.rows[i][c] = FunctionOutcome.value.rows[i][c]

\* both return for a file of two rows of which the second is not converted
C26_Witness ==
  /\ TargetAnalysed
  /\ target_command_result.outcome.raised = ""
  /\ FunctionOutcome.raised = ""
  /\ Len(usage_df.rows) = 2
  /\ ~ShouldConvert(usage_df.rows[2]["Database engine"])

(***************************************************************************)
(* Properties of the cached region lookup.                                 *)
(***************************************************************************)
\* C25: the cache changes no result of the region lookup: every call made so
\* far ended as a call of the function without the cache ends for its name,
\* and a name that raised once raises on every later call.
C25_CacheTransparent ==
  \A k \in DOMAIN calls :
    /\ SameOutcome(calls[k].outcome, get_region_name_code_mapping(calls[k].name))
    /\ \A j \in 1..(k - 1) :
         (calls[j].name = calls[k].name /\ calls[j].outcome.raised # "") =>
           calls[k].outcome = calls[j].outcome

\* a name answered of the cache, and between its two calls a lower-case name
\* that fails twice
C25_Witness ==
  /\ Len(calls) = 4
  /\ calls[1].name = EULondon /\ calls[4].name = EULondon
  /\ calls[1].outcome = Returned("eu-west-2") /\ calls[4].outcome = Returned("eu-west-2")
  /\ calls[2].name = LowerName(EULondon) /\ calls[3].name = LowerName(EULondon)
  /\ calls[2].outcome.raised = "RegionMappingError"
  /\ calls[3].outcome.raised = "RegionMappingError"
  /\ Len(cache) = 1

====
